---- MODULE Spec2Model ----
(***************************************************************************)
(* A model of scripts/arlington.py (class Arlington): the ingestion of the *)
(* Type / Link / DefaultValue columns, the type and link helpers, the      *)
(* static validation pass __validate_pdf_dom and the document walk         *)
(* validate_pdf_file / process_dict / process_stream / process_array.      *)
(*                                                                         *)
(* Python values are tagged records [k, s, l]:                             *)
(*   k = "none"  None                                                      *)
(*   k = "str"   a str, s its text                                         *)
(*   k = "num"   an int or float, s its text                               *)
(*   k = "bool"  True or False, s its text                                 *)
(*   k = "tok"   a sly token left in an AST (a FUNC_NAME), s its value     *)
(*   k = "list"  a list, l its elements                                    *)
(* Indices into Python lists are 0-based in the code and kept 0-based in   *)
(* every result below; -1 is the code's "not found".                       *)
(***************************************************************************)
EXTENDS Integers, Sequences, FiniteSets, TLC

VARIABLES
    fquery,      \* __find_pdf_type: the 'types' argument
    ftypelist,   \* __find_pdf_type: the 'typelist' argument
    fresult,     \* __find_pdf_type: [done, idx], idx the returned index
    pdfdom,      \* self.__pdfdom, in insertion order
    vpc,         \* __validate_pdf_dom: "idle", "rows", "orphan", "done", "raised"
    vobj,        \* index (1-based) of the object the pass is at
    vkey,        \* index (1-based) of the next key of that object
    findings,    \* the logging.error / logging.critical records of the pass
    rowsChecked, \* the (object, key) pairs whose row block ran to its end
    orphansChecked, \* the objects whose incoming-link check ran
    doc,         \* the document graph handed over by pikepdf
    wpc,         \* validate_pdf_file: "idle", "walking", "done" or the exception raised
    stack,       \* the active process_dict/process_stream/process_array calls
    visited,     \* self.__visited
    out,         \* the annotation lines printed for the document, in order
    entered,     \* per container node, how many process_* calls were made on it
    ndocs,       \* how many times validate_pdf_file was called
    exported,    \* what save_dom_to_json wrote, None before it is called
    toks,        \* _parse_functions: stk, the tokens of the text being parsed
    apc,         \* to_nested_AST: "idle", "start", "done" or the exception raised
    ast,         \* the list to_nested_AST returned
    nexti,       \* the index to_nested_AST returned
    checks,      \* the calls of the __validate_fns checkers, in order
    lexed,       \* arlington-fn-lex.py: [done, i, ast], what ToNestedAST returned
    tsvdir,      \* the TSV files of the directory, in the order glob yields them
    earlier,     \* the Doms of the Arlington objects made of tsvdir before this one
    fileno,      \* how many of them __init__ has opened (self.__filecount)
    ipc,         \* __init__: "idle", "reading", "done" or the exception caught
    validating   \* self.__validating

fvars == <<fquery, ftypelist, fresult>>
vvars == <<vpc, vobj, vkey, findings, rowsChecked, orphansChecked>>
wvars == <<doc, wpc, stack, visited, out, entered, ndocs>>
avars == <<toks, apc, ast, nexti, checks, lexed>>
ivars == <<tsvdir, fileno, ipc, earlier>>
vars  == <<fquery, ftypelist, fresult, pdfdom, vpc, vobj, vkey, findings,
           rowsChecked, orphansChecked, doc, wpc, stack, visited, out, entered,
           ndocs, exported, toks, apc, ast, nexti, checks, lexed, tsvdir, fileno, ipc,
           earlier, validating>>

(***************************************************************************)
(* Python values                                                           *)
(***************************************************************************)
NoneV == [k |-> "none", s |-> "", l |-> <<>>]

Str(x) == [k |-> "str", s |-> x, l |-> <<>>]

Num(x) == [k |-> "num", s |-> x, l |-> <<>>]

Bool(x) == [k |-> "bool", s |-> x, l |-> <<>>]

Tok(x) == [k |-> "tok", s |-> x, l |-> <<>>]

Lst(x) == [k |-> "list", s |-> "", l |-> x]

(***************************************************************************)
(* ArlingtonFnLexer: the type of the token with text x, for the texts the  *)
(* token sequences below are made of.  A FUNC_NAME keeps its '('.          *)
(***************************************************************************)
FuncNames ==
    {"fn:ArraySortAscending(", "fn:BitClear(", "fn:BitSet(", "fn:BitsClear(",
     "fn:BitsSet(", "fn:Deprecated(", "fn:IsRequired(", "fn:NoCycle(", "fn:Not(",
     "fn:RequiredValue(", "fn:SinceVersion(", "fn:Foo("}

IntegerTexts == {"0", "1", "2", "32", "33"}

TokType(x) ==
    CASE x \in FuncNames    -> "FUNC_NAME"
      [] x = "TRUE"          -> "PDF_TRUE"
      [] x = "FALSE"         -> "PDF_FALSE"
      [] x = "@K"            -> "KEY_VALUE"
      [] x = "K::"           -> "KEY_PATH"
      [] x = "["             -> "ARRAY_START"
      [] x = "]"             -> "ARRAY_END"
      [] x = "=="            -> "EQ"
      [] x = "||"            -> "LOGICAL_OR"
      [] x = "1.4"           -> "REAL"
      [] x = "2.0"           -> "REAL"
      [] x \in IntegerTexts  -> "INTEGER"
      [] x = "("             -> "LPAREN"
      [] x = ")"             -> "RPAREN"
      [] x = ","             -> "COMMA"
      [] OTHER               -> "KEY_NAME"

\* int(t.value) of an INTEGER token.
IntValue(x) ==
    CASE x = "0"  -> 0
      [] x = "1"  -> 1
      [] x = "2"  -> 2
      [] x = "32" -> 32
      [] OTHER    -> 33

\* The spelling of every string the code iterates over or searches in.
Chars(x) ==
    CASE x = "array"        -> <<"a","r","r","a","y">>
      [] x = "bitmask"      -> <<"b","i","t","m","a","s","k">>
      [] x = "boolean"      -> <<"b","o","o","l","e","a","n">>
      [] x = "date"         -> <<"d","a","t","e">>
      [] x = "dictionary"   -> <<"d","i","c","t","i","o","n","a","r","y">>
      [] x = "integer"      -> <<"i","n","t","e","g","e","r">>
      [] x = "matrix"       -> <<"m","a","t","r","i","x">>
      [] x = "name"         -> <<"n","a","m","e">>
      [] x = "name-tree"    -> <<"n","a","m","e","-","t","r","e","e">>
      [] x = "null"         -> <<"n","u","l","l">>
      [] x = "number"       -> <<"n","u","m","b","e","r">>
      [] x = "number-tree"  -> <<"n","u","m","b","e","r","-","t","r","e","e">>
      [] x = "rectangle"    -> <<"r","e","c","t","a","n","g","l","e">>
      [] x = "stream"       -> <<"s","t","r","e","a","m">>
      [] x = "string"       -> <<"s","t","r","i","n","g">>
      [] x = "string-ascii" -> <<"s","t","r","i","n","g","-","a","s","c","i","i">>
      [] x = "string-byte"  -> <<"s","t","r","i","n","g","-","b","y","t","e">>
      [] x = "string-text"  -> <<"s","t","r","i","n","g","-","t","e","x","t">>
      [] x = "FileTrailer"  -> <<"F","i","l","e","T","r","a","i","l","e","r">>
      [] x = "XRefStream"   -> <<"X","R","e","f","S","t","r","e","a","m">>
      [] x = "ObjA"         -> <<"O","b","j","A">>
      [] x = "ObjB"         -> <<"O","b","j","B">>
      [] x = "ObjC"         -> <<"O","b","j","C">>
      [] x = "ObjT"         -> <<"O","b","j","T">>
      [] OTHER              -> <<x>>

\* Python's  a in b  on two str: a is a contiguous part of b.
IsSubstr(a, b) ==
    LET ca == Chars(a)
        cb == Chars(b)
    IN  \E i \in 0..(Len(cb) - Len(ca)) : SubSeq(cb, i + 1, i + Len(ca)) = ca

known_types ==
    {"array", "bitmask", "boolean", "date", "dictionary", "integer", "matrix",
     "name", "name-tree", "null", "number", "number-tree", "rectangle", "stream",
     "string", "string-ascii", "string-byte", "string-text"}

links_required == {"array", "dictionary", "name-tree", "number-tree", "stream"}

pdf_versions == {"1.0", "1.1", "1.2", "1.3", "1.4", "1.5", "1.6", "1.7", "2.0"}

(***************************************************************************)
(* __find_pdf_type(types, typelist).  types is [islist, names]: a single   *)
(* str (islist = FALSE, names of length 1) or a list of str.               *)
(***************************************************************************)
RECURSIVE FindFrom(_, _, _)
FindFrom(types, typelist, i) ==
    IF i > Len(typelist) THEN -1
    ELSE LET t == typelist[i] IN
         IF t.k = "str"
         THEN IF types.islist
              THEN \* the inner loop over 'types', then an unconditional return -1
                   IF \E j \in 1..Len(types.names) : IsSubstr(types.names[j], t.s)
                   THEN i - 1
                   ELSE -1
              ELSE IF IsSubstr(types.names[1], t.s)
                   THEN i - 1
                   ELSE FindFrom(types, typelist, i + 1)
         ELSE IF t.k = "list"
              THEN IF FindFrom(types, t.l, 1) # -1
                   THEN i - 1
                   ELSE FindFrom(types, typelist, i + 1)
              ELSE FindFrom(types, typelist, i + 1)

find_pdf_type(types, typelist) == FindFrom(types, typelist, 1)

(***************************************************************************)
(* _parse_functions on one piece of column text.  A piece of text is a     *)
(* record [f, s, a]:                                                       *)
(*   f = "name"  a bare identifier s            (one KEY_NAME token)       *)
(*   f = "num"   a numeric literal s            (one REAL/INTEGER token)   *)
(*   f = "bool"  TRUE or FALSE                  (one PDF_TRUE/PDF_FALSE)   *)
(*   f = "brk"   "[a1,a2,...]", "[]" for a = <<>>                          *)
(*   f = "fn"    "s a1,a2,...)" with s a FUNC_NAME such as                 *)
(*               "fn:SinceVersion("                                         *)
(* A column is the sequence of its ';'-separated pieces; the empty column  *)
(* is <<>>.                                                                *)
(***************************************************************************)
TName(x) == [f |-> "name", s |-> x, a |-> <<>>]

TNum(x) == [f |-> "num", s |-> x, a |-> <<>>]

TBool(x) == [f |-> "bool", s |-> x, a |-> <<>>]

TBrk(a) == [f |-> "brk", s |-> "", a |-> a]

TFn(fn, a) == [f |-> "fn", s |-> fn, a |-> a]

\* The flattened value of one argument token: a REAL becomes a float, an
\* INTEGER an int, a PDF_TRUE or PDF_FALSE a bool, a KEY_NAME its text.
ArgValue(x) ==
    CASE x \in pdf_versions \cup {"3.0"} -> Num(x)
      [] x \in IntegerTexts              -> Num(x)
      [] x \in {"TRUE", "true"}          -> Bool("True")
      [] x \in {"FALSE", "false"}        -> Bool("False")
      [] OTHER                           -> Str(x)

parse_functions(piece) ==
    CASE piece.f = "name" -> Str(piece.s)
      [] piece.f = "num"  -> Num(piece.s)
      [] piece.f = "bool" -> Bool(IF piece.s = "TRUE" THEN "True" ELSE "False")
      [] piece.f = "brk"  ->
            Lst(<<Lst([i \in 1..Len(piece.a) |-> ArgValue(piece.a[i])])>>)
      [] piece.f = "fn"   ->
            Lst(<<Lst(<<Tok(piece.s),
                        Lst([i \in 1..Len(piece.a) |-> ArgValue(piece.a[i])])>>)>>)

(***************************************************************************)
(* Specification of __find_pdf_type alone: a query the matcher makes, on a *)
(* type list as ingestion leaves it.                                       *)
(***************************************************************************)
MaxAlts == 2

\* The 'types' arguments the matcher passes (process_dict and its twins).
MatcherQueries ==
    { [islist |-> TRUE,  names |-> <<"dictionary", "name-tree", "number-tree">>],
      [islist |-> FALSE, names |-> <<"stream">>],
      [islist |-> TRUE,  names |-> <<"array", "matrix", "rectangle">>],
      [islist |-> FALSE, names |-> <<"name">>],
      [islist |-> TRUE,  names |-> <<"string", "date">>],
      [islist |-> TRUE,  names |-> <<"boolean">>],
      [islist |-> TRUE,  names |-> <<"integer", "number", "bitmask">>],
      [islist |-> FALSE, names |-> <<"number">>],
      [islist |-> FALSE, names |-> <<"null">>] }

\* One alternative of a Type column as written in a TSV file.
TypePieces ==
    { TName("array"), TName("dictionary"), TName("name"), TName("name-tree"),
      TName("number"), TName("number-tree"), TName("stream"), TName("integer"),
      TFn("fn:SinceVersion(", <<"2.0", "dictionary">>),
      TFn("fn:Deprecated(", <<"1.4", "name">>) }

\* Lines 740-746: split on ';', pieces holding 'fn:' are parsed in place.
IngestType(col) ==
    [i \in 1..Len(col) |->
        IF col[i].f = "fn" THEN parse_functions(col[i]) ELSE Str(col[i].s)]

TypeColumns(n) == UNION { [1..m -> TypePieces] : m \in 1..n }

FindIdle ==
    /\ fquery = [islist |-> FALSE, names |-> <<"null">>]
    /\ ftypelist = <<>>
    /\ fresult = [done |-> FALSE, idx |-> -1]

ValidateIdle ==
    /\ vpc = "idle"
    /\ vobj = 0
    /\ vkey = 0
    /\ findings = {}
    /\ rowsChecked = {}
    /\ orphansChecked = {}

WalkIdle ==
    /\ doc = <<>>
    /\ wpc = "idle"
    /\ stack = <<>>
    /\ visited = {}
    /\ out = <<>>
    /\ entered = <<>>
    /\ ndocs = 0
    /\ exported = NoneV

NotLexed == [done |-> FALSE, i |-> 0, ast |-> <<>>]

AstIdle ==
    /\ toks = <<>>
    /\ apc = "idle"
    /\ ast = <<>>
    /\ nexti = 0
    /\ checks = <<>>
    /\ lexed = NotLexed

IngestIdle ==
    /\ tsvdir = <<>>
    /\ fileno = 0
    /\ ipc = "idle"
    /\ earlier = <<>>

FindInit ==
    /\ fquery \in MatcherQueries
    /\ \E col \in TypeColumns(MaxAlts) : ftypelist = IngestType(col)
    /\ fresult = [done |-> FALSE, idx |-> -1]
    /\ pdfdom = <<>>
    /\ validating = FALSE
    /\ ValidateIdle
    /\ WalkIdle
    /\ AstIdle
    /\ IngestIdle

FindCall ==
    /\ ~fresult.done
    /\ fresult' = [done |-> TRUE, idx |-> find_pdf_type(fquery, ftypelist)]
    /\ UNCHANGED <<fquery, ftypelist, pdfdom, exported, validating>>
    /\ UNCHANGED vvars
    /\ UNCHANGED wvars
    /\ UNCHANGED avars
    /\ UNCHANGED ivars

FindNext == FindCall

SpecFind == FindInit /\ [][FindNext]_vars

(***************************************************************************)
(* The checkers of __validate_fns.  ast is the argument list of a call as  *)
(* to_nested_AST built it: a sequence of tokens (k = "tok") and lists.     *)
(* A checker answers "True" or "False", or the name of the exception it    *)
(* raises: .type of a list is an AttributeError, [j] of a token a          *)
(* TypeError, [j] past the end of a list an IndexError.  Python's 'and'    *)
(* and 'or' evaluate their right operand only when they need it.           *)
(***************************************************************************)
PyBool(b) == IF b THEN "True" ELSE "False"

PyAnd(a, b) == IF a = "True" THEN b ELSE a

PyOr(a, b) == IF a = "False" THEN b ELSE a

comparison_ops == {"EQ", "NE", "GE", "LE", "GT", "LT"}

\* x.type in T
TypeIn(x, T) ==
    IF x.k # "tok" THEN "AttributeError" ELSE PyBool(TokType(x.s) \in T)

\* x[j].type in T, j 0-based
TypeAt(x, j, T) ==
    IF x.k # "list" THEN "TypeError"
    ELSE IF j >= Len(x.l) THEN "IndexError"
    ELSE TypeIn(x.l[j + 1], T)

InBitRange(x) == PyBool(IntValue(x.s) >= 1 /\ IntValue(x.s) <= 32)

validate_fn_void(a) == PyBool(Len(a) = 0)

validate_fn_anything(a) == PyBool(Len(a) > 0)

\* ('KEY_NAME') and ('INTEGER') are str, so "in" is a substring test; no
\* other token type is a part of either word.
validate_fn_array_sort_ascending(a) ==
    PyAnd(PyBool(Len(a) = 2),
          PyAnd(TypeIn(a[1], {"KEY_NAME"}), TypeIn(a[2], {"INTEGER"})))

validate_fn_version(a) ==
    PyAnd(PyBool(Len(a) >= 1),
          PyAnd(TypeIn(a[1], {"REAL"}), PyBool(a[1].s \in pdf_versions)))

validate_fn_bit(a) ==
    PyAnd(PyBool(Len(a) = 1), PyAnd(TypeIn(a[1], {"INTEGER"}), InBitRange(a[1])))

validate_fn_bits_le(a) ==
    PyAnd(PyBool(Len(a) = 2),
    PyAnd(TypeIn(a[1], {"INTEGER"}),
    PyAnd(InBitRange(a[1]),
    PyAnd(TypeIn(a[2], {"INTEGER"}),
    PyAnd(InBitRange(a[2]), PyBool(IntValue(a[1].s) <= IntValue(a[2].s)))))))

validate_fn_bits(a) ==
    PyAnd(PyBool(Len(a) = 2),
    PyAnd(TypeIn(a[1], {"INTEGER"}),
    PyAnd(InBitRange(a[1]),
    PyAnd(TypeIn(a[2], {"INTEGER"}),
    PyAnd(InBitRange(a[2]), PyBool(IntValue(a[1].s) < IntValue(a[2].s)))))))

validate_fn_is_required(a) ==
    IF Len(a) = 0 THEN "True"
    ELSE IF a[1].k = "list" THEN "True"
    ELSE PyOr(PyAnd(PyBool(Len(a) >= 3),
                    PyOr(TypeIn(a[1], {"FUNC_NAME"}),
                         PyAnd(TypeIn(a[1], {"KEY_VALUE"}), TypeIn(a[2], comparison_ops)))),
              PyAnd(PyBool(Len(a) >= 4),
              PyAnd(TypeIn(a[1], {"KEY_PATH"}),
              PyAnd(TypeIn(a[2], {"KEY_NAME", "KEY_VALUE"}), TypeIn(a[3], comparison_ops)))))

validate_fn_required_value(a) ==
    IF Len(a) = 0 THEN "IndexError"
    ELSE IF a[1].k # "list"
    THEN PyAnd(PyBool(Len(a) = 4), TypeIn(a[1], {"KEY_VALUE", "FUNC_NAME"}))
    ELSE IF Len(a) = 2
    THEN IF a[1].l = <<>> THEN "IndexError"
         ELSE IF a[1].l[1].k # "list" THEN "False"
         ELSE TypeAt(a[1].l[1], 0, {"FUNC_NAME"})
    ELSE IF Len(a) >= 3
    THEN PyOr(PyAnd(TypeAt(a[1], 0, {"KEY_VALUE"}),
              PyAnd(TypeAt(a[1], 1, comparison_ops),
              PyAnd(TypeIn(a[2], {"LOGICAL_OR", "LOGICAL_AND"}),
              PyAnd(TypeAt(a[3], 0, {"KEY_VALUE"}), TypeAt(a[3], 1, comparison_ops))))),
              TypeAt(a[1], 0, {"FUNC_NAME"}))
    ELSE "False"

\* Lines 635-640: the checker of a function name, "Unknown" for a name that
\* is not in __validate_fns.
ValidateFn(fn, a) ==
    CASE fn = "fn:ArraySortAscending("           -> validate_fn_array_sort_ascending(a)
      [] fn \in {"fn:BitClear(", "fn:BitSet("}   -> validate_fn_bit(a)
      [] fn \in {"fn:BitsClear(", "fn:BitsSet("} -> validate_fn_bits(a)
      [] fn \in {"fn:Deprecated(", "fn:SinceVersion("} -> validate_fn_version(a)
      [] fn = "fn:Not("                          -> validate_fn_anything(a)
      [] fn = "fn:IsRequired("                   -> validate_fn_is_required(a)
      [] fn = "fn:NoCycle("                      -> validate_fn_void(a)
      [] fn = "fn:RequiredValue("                -> validate_fn_required_value(a)
      [] OTHER                                   -> "Unknown"

PyErrors == {"KeyError", "IndexError", "TypeError", "AttributeError"}

(***************************************************************************)
(* to_nested_AST(stk, idx).  The result is [i, ast, checks, err]: the      *)
(* index returned (0-based, as in the code), the list returned, the calls  *)
(* of checkers made so far with their answers, and the exception that      *)
(* ended the call, "" for none.                                            *)
(***************************************************************************)
CallNodeFlat(fn, k) == Lst(<<Tok(fn)>> \o k)

\* Line 641: k = [stk[i]] + [k].
CallNode(fn, k) == Lst(<<Tok(fn), Lst(k)>>)

\* The while loop of lines 631-657 from index i on, ast being acc.
RECURSIVE NestFrom(_, _, _, _, _)
NestFrom(s, i, acc, chk, v) ==
    IF i >= Len(s) THEN [i |-> i, ast |-> acc, checks |-> chk, err |-> ""]
    ELSE LET ty == TokType(s[i + 1]) IN
         CASE ty = "FUNC_NAME" ->
                LET r == NestFrom(s, i + 1, <<>>, chk, v) IN
                IF r.err # "" THEN r
                ELSE IF ~v
                THEN NestFrom(s, r.i, Append(acc, CallNode(s[i + 1], r.ast)), r.checks, v)
                ELSE LET res  == ValidateFn(s[i + 1], r.ast)
                         chk2 == Append(r.checks,
                                        [fn |-> s[i + 1], args |-> r.ast, res |-> res])
                     IN  IF res \in PyErrors
                         THEN [i |-> r.i, ast |-> acc, checks |-> chk2, err |-> res]
                         ELSE NestFrom(s, r.i, Append(acc, CallNode(s[i + 1], r.ast)),
                                       chk2, v)
           [] ty \in {"LPAREN", "ARRAY_START"} ->
                LET r == NestFrom(s, i + 1, <<>>, chk, v) IN
                IF r.err # "" THEN r
                ELSE NestFrom(s, r.i, Append(acc, Lst(r.ast)), r.checks, v)
           [] ty \in {"RPAREN", "ARRAY_END"} ->
                [i |-> i + 1, ast |-> acc, checks |-> chk, err |-> ""]
           [] ty = "COMMA" -> NestFrom(s, i + 1, acc, chk, v)
           [] OTHER -> NestFrom(s, i + 1, Append(acc, Tok(s[i + 1])), chk, v)

(***************************************************************************)
(* Specification of to_nested_AST alone, as _parse_functions calls it at   *)
(* line 689 on the tokens of one column text.                              *)
(***************************************************************************)
MaxToks == 5

\* Token texts put together freely.
FreeTexts == {"fn:BitSet(", "(", ")", "[", "]", ",", "1", "K"}

FreeSequences == UNION { [1..n -> FreeTexts] : n \in 0..MaxToks }

\* One call, of every function drawn, on up to two arguments.
ArgTexts ==
    { <<"0">>, <<"1">>, <<"2">>, <<"32">>, <<"33">>, <<"K">>, <<"@K">>, <<"1.4">>,
      <<"(", "1", ")">>, <<"fn:NoCycle(", ")">> }

ArgLists ==
    {<<>>} \cup ArgTexts \cup { x[1] \o <<",">> \o x[2] : x \in ArgTexts \X ArgTexts }

CallSequences == { <<x[1]>> \o x[2] \o <<")">> : x \in FuncNames \X ArgLists }

AstInit ==
    /\ toks \in FreeSequences \cup CallSequences
    /\ validating \in BOOLEAN
    /\ apc = "start"
    /\ ast = <<>>
    /\ nexti = 0
    /\ checks = <<>>
    /\ lexed = NotLexed
    /\ pdfdom = <<>>
    /\ exported = NoneV
    /\ FindIdle
    /\ ValidateIdle
    /\ doc = <<>>
    /\ wpc = "idle"
    /\ stack = <<>>
    /\ visited = {}
    /\ out = <<>>
    /\ entered = <<>>
    /\ ndocs = 0
    /\ IngestIdle

\* Line 689: i, ast = self.to_nested_AST(stk).
to_nested_AST ==
    /\ apc = "start"
    /\ LET r == NestFrom(toks, 0, <<>>, <<>>, validating)
       IN  /\ apc' = IF r.err # "" THEN r.err ELSE "done"
           /\ ast' = r.ast
           /\ nexti' = r.i
           /\ checks' = r.checks
    /\ UNCHANGED <<toks, lexed, pdfdom, exported, validating>>
    /\ UNCHANGED fvars
    /\ UNCHANGED vvars
    /\ UNCHANGED wvars
    /\ UNCHANGED ivars

\* arlington-fn-lex.py, the while loop of lines 150-169 from index i on,
\* ast being acc: [i, ast].
RECURSIVE ToNestedAST(_, _, _)
ToNestedAST(s, i, acc) ==
    IF i >= Len(s) THEN [i |-> i, ast |-> acc]
    ELSE LET ty == TokType(s[i + 1]) IN
         CASE ty = "FUNC_NAME" ->
                LET r == ToNestedAST(s, i + 1, <<>>)
                IN  ToNestedAST(s, r.i, acc \o <<Tok(s[i + 1]), Lst(r.ast)>>)
           [] ty = "LPAREN" ->
                LET r == ToNestedAST(s, i + 1, <<>>)
                IN  ToNestedAST(s, r.i, Append(acc, Lst(r.ast)))
           [] ty = "RPAREN" -> [i |-> i + 1, ast |-> acc]
           [] ty = "COMMA"  -> ToNestedAST(s, i + 1, acc)
           [] OTHER         -> ToNestedAST(s, i + 1, Append(acc, Tok(s[i + 1])))

\* arlington-fn-lex.py run on the same text: ToNestedAST on its tokens.
FnLexMain ==
    /\ apc # "idle"
    /\ ~lexed.done
    /\ LET r == ToNestedAST(toks, 0, <<>>)
       IN  lexed' = [done |-> TRUE, i |-> r.i, ast |-> r.ast]
    /\ UNCHANGED <<toks, apc, ast, nexti, checks, pdfdom, exported, validating>>
    /\ UNCHANGED fvars
    /\ UNCHANGED vvars
    /\ UNCHANGED wvars
    /\ UNCHANGED ivars

AstNext ==
    \/ to_nested_AST
    \/ FnLexMain

SpecAst == AstInit /\ [][AstNext]_vars

(***************************************************************************)
(* Ingestion of the Link and DefaultValue columns (Arlington.__init__).    *)
(* A row of the Dom is [Type, Link, DefaultValue, SinceVersion, Required]. *)
(* An object is [name, keys, rows] with keys in file order; the Dom is the *)
(* sequence of objects in the order glob returned their files.             *)
(***************************************************************************)
\* Lines 826-839.
IngestLink(col) ==
    IF col = <<>> THEN NoneV
    ELSE IF Len(col) >= 2
         THEN Lst([i \in 1..Len(col) |->
                     IF col[i] = TBrk(<<>>) THEN NoneV ELSE parse_functions(col[i])])
         ELSE LET p == parse_functions(col[1])
              IN  IF p.k = "list" THEN p ELSE Lst(<<p>>)

\* __strip_square_brackets on one piece followed by _parse_functions: "[]"
\* is None, "[x]" is parsed as x, "[x,y]" as the token list x y.
StripParse(piece) ==
    IF piece.f # "brk" THEN parse_functions(piece)
    ELSE IF piece.a = <<>> THEN NoneV
    ELSE IF Len(piece.a) = 1 THEN ArgValue(piece.a[1])
    ELSE Lst([i \in 1..Len(piece.a) |-> ArgValue(piece.a[i])])

\* Lines 778-788 and the name hack of lines 804-807.
IngestDefaultValue(col, types) ==
    LET dv == IF col = <<>> THEN NoneV
              ELSE IF Len(col) >= 2
                   THEN Lst([i \in 1..Len(col) |-> StripParse(col[i])])
                   ELSE LET p == parse_functions(col[1])
                        IN  IF p.k = "list" THEN p ELSE Lst(<<p>>)
    IN  IF /\ types[1] = Str("name")
           /\ dv.k = "list"
           /\ Len(dv.l) >= 1
           /\ dv.l[1].k = "num"
        THEN Lst([dv.l EXCEPT ![1] = Str(dv.l[1].s)])
        ELSE dv

\* Line 753: a version such as 1.7 lexes as one REAL and becomes a float; a
\* word becomes a str; a predicate becomes a list; '' becomes [].
IngestSinceVersion(col) ==
    IF col = <<>> THEN Lst(<<>>) ELSE parse_functions(col[1])

\* Lines 748-750: TRUE and FALSE lex as PDF_TRUE and PDF_FALSE and become
\* [True] and [False]; a predicate stays the list it was parsed to.
IngestRequired(col) ==
    IF col = <<>> THEN Lst(<<>>)
    ELSE LET p == parse_functions(col[1])
         IN  IF p.k = "list" THEN p ELSE Lst(<<p>>)

\* One TSV row, from its Type, Link, DefaultValue, SinceVersion and Required
\* columns.
\* Lines 766-767 without the repetition of lines 770-772.
IndirectReferenceListAsParsed(p, types) ==
    IF p.k = "list" THEN p ELSE Lst(<<p>>)

\* Lines 766-772 on the parsed column p: a value that is no list becomes a
\* list of one, and a list of one is repeated once per type.
IndirectReferenceList(p, types) ==
    LET ir == IF p.k = "list" THEN p ELSE Lst(<<p>>)
    IN  IF Len(types) > Len(ir.l) /\ Len(ir.l) = 1
        THEN Lst([i \in 1..Len(types) |-> ir.l[1]])
        ELSE ir

\* Lines 759-772: an IndirectReference column of one piece is parsed as it
\* is and, when the row has several types, repeated once per type; with
\* ';' each piece loses its outer brackets and is parsed on its own.
IngestIndirectReference(col, types) ==
    IndirectReferenceList(IF col = <<>> THEN Lst(<<>>)
                          ELSE IF Len(col) >= 2
                               THEN Lst([i \in 1..Len(col) |-> StripParse(col[i])])
                               ELSE parse_functions(col[1]),
                          types)

\* Lines 789-799 and the name hack of lines 803-812 (the loop of line 809
\* runs over the elements of a list and over the characters of a str, which
\* are no numbers).
IngestPossibleValues(col, types) ==
    LET pv == IF col = <<>> THEN NoneV
              ELSE IF Len(col) >= 2
                   THEN Lst([i \in 1..Len(col) |-> StripParse(col[i])])
                   ELSE LET p == parse_functions(col[1])
                        IN  IF p.k = "list" THEN p ELSE Lst(<<p>>)
    IN  IF /\ types[1] = Str("name")
           /\ pv.k = "list"
           /\ Len(pv.l) >= 1
           /\ pv.l[1].k = "list"
        THEN Lst([pv.l EXCEPT ![1] =
                    Lst([j \in 1..Len(@.l) |->
                           IF @.l[j].k = "num" THEN Str(@.l[j].s) ELSE @.l[j]])])
        ELSE pv

MkRowFull(typecol, linkcol, dvcol, svcol, reqcol, ircol, pvcol) ==
    [Type              |-> IngestType(typecol),
     Link              |-> IngestLink(linkcol),
     DefaultValue      |-> IngestDefaultValue(dvcol, IngestType(typecol)),
     SinceVersion      |-> IngestSinceVersion(svcol),
     Required          |-> IngestRequired(reqcol),
     IndirectReference |-> IngestIndirectReference(ircol, IngestType(typecol)),
     PossibleValues    |-> IngestPossibleValues(pvcol, IngestType(typecol))]

\* A row whose IndirectReference column is FALSE and whose PossibleValues
\* column is empty.
MkRowRequired(typecol, linkcol, dvcol, svcol, reqcol) ==
    MkRowFull(typecol, linkcol, dvcol, svcol, reqcol, <<TBool("FALSE")>>, <<>>)

\* A row whose Required column is FALSE.
MkRow(typecol, linkcol, dvcol, svcol) ==
    MkRowRequired(typecol, linkcol, dvcol, svcol, <<TBool("FALSE")>>)

HasObj(dom, name) == \E i \in 1..Len(dom) : dom[i].name = name

GetObj(dom, name) == dom[CHOOSE i \in 1..Len(dom) : dom[i].name = name]

HasKey(obj, key) == \E i \in 1..Len(obj.keys) : obj.keys[i] = key

GetRow(obj, key) == obj.rows[CHOOSE i \in 1..Len(obj.keys) : obj.keys[i] = key]

(***************************************************************************)
(* __reduce_linkslist(linkslist, []): None for None, else the str elements *)
(* of the nested list in order.  A str argument is iterated character by   *)
(* character; an int, float or token is not iterable (TypeError).          *)
(***************************************************************************)
RECURSIVE FlattenLinks(_)
FlattenLinks(l) ==
    IF l = <<>> THEN <<>>
    ELSE LET h == l[1] IN
         (CASE h.k = "str"  -> <<h.s>>
            [] h.k = "list" -> FlattenLinks(h.l)
            [] OTHER        -> <<>>) \o FlattenLinks(Tail(l))

ReduceRaises(x) == x.k \in {"num", "tok"}

reduce_linkslist(x) ==
    CASE x.k = "none" -> [none |-> TRUE,  names |-> <<>>]
      [] x.k = "str"  -> [none |-> FALSE, names |-> Chars(x.s)]
      [] OTHER        -> [none |-> FALSE, names |-> FlattenLinks(x.l)]

(***************************************************************************)
(* __reduce_typelist(typelist, []): the known type names, wrappers opened. *)
(***************************************************************************)
RECURSIVE reduce_typelist(_)
reduce_typelist(l) ==
    IF l = <<>> THEN <<>>
    ELSE LET h == l[1] IN
         (CASE h.k = "str"  -> IF h.s \in known_types THEN <<h.s>> ELSE <<>>
            [] h.k = "list" -> reduce_typelist(h.l)
            [] OTHER        -> <<>>) \o reduce_typelist(Tail(l))

(***************************************************************************)
(* Documents.  Node 0 is the trailer (a direct dictionary); nodes 1, 2, 3  *)
(* are a dictionary, a stream and an array.  doc.ref[n] says that n is an  *)
(* indirect object (objgen # (0, 0)); doc.kids[n] lists the children of n  *)
(* as [key, kind, id] in the order the code iterates (sorted keys, array   *)
(* index), id = 0 for a scalar; doc.ttype is the trailer's /Type.          *)
(***************************************************************************)
MaxEdges == 3

RecursionLimit == 6

Containers == {1, 2, 3}

NodeKind(n) ==
    CASE n = 0 -> "dict"
      [] n = 1 -> "dict"
      [] n = 2 -> "stream"
      [] n = 3 -> "array"

\* A child value: 1..3 a container, 4 a name, 5 an object of a kind the
\* walk has no branch for.
ChildOf(key, code) ==
    CASE code \in Containers -> [key |-> key, kind |-> NodeKind(code), id |-> code]
      [] code = 4            -> [key |-> key, kind |-> "name", id |-> 0]
      [] OTHER               -> [key |-> key, kind |-> "other", id |-> 0]

SlotKey(j) == IF j = 1 THEN "A" ELSE "B"

Slots == (0..3) \X {1, 2}

EdgeSets == { es \in SUBSET Slots : Cardinality(es) <= MaxEdges }

TrailerTypes == {"absent", "XRef", "Other"}

ReachStep(es, f, S) == S \cup { f[e] : e \in { x \in es : x[1] \in S /\ f[x] \in Containers } }

ReachFromTrailer(es, f) == ReachStep(es, f, ReachStep(es, f, ReachStep(es, f, {0})))

\* pikepdf hands out a direct container inside its one parent only, and the
\* walk sees nothing that the trailer does not reach.
WellFormedDoc(es, f, ref) ==
    /\ \A e \in es : e[1] \in ReachFromTrailer(es, f)
    /\ \A n \in Containers :
          ~ref[n] => Cardinality({ e \in es : f[e] = n }) <= 1
    /\ \A n \in Containers :
          ref[n] => \E e \in es : f[e] = n

MkDoc(es, f, ref, tt) ==
    [ref   |-> [n \in 0..3 |-> IF n = 0 THEN FALSE ELSE ref[n]],
     kids  |-> [n \in 0..3 |->
                  (IF <<n, 1>> \in es THEN <<ChildOf(SlotKey(1), f[<<n, 1>>])>> ELSE <<>>)
                  \o (IF <<n, 2>> \in es THEN <<ChildOf(SlotKey(2), f[<<n, 2>>])>> ELSE <<>>)
                  \o (IF n = 0 /\ tt # "absent"
                      THEN <<[key |-> "Type", kind |-> "name", id |-> 0]>> ELSE <<>>)],
     ttype |-> tt]

(***************************************************************************)
(* The walk: validate_pdf_file, process_dict, process_stream and           *)
(* process_array.  The three process_* functions are textual copies that   *)
(* differ in how the row of a child is chosen; one frame of `stack` is one *)
(* active call, [node, arl, i]: the node walked, the name of arlobj ("" for *)
(* None) and the 1-based position of the next child.                       *)
(***************************************************************************)
Top == stack[Len(stack)]

CurChild == doc.kids[Top.node][Top.i]

HasChild ==
    /\ wpc = "walking"
    /\ stack # <<>>
    /\ Top.i <= Len(doc.kids[Top.node])

\* str(i) of an array index.
IndexKey(i) ==
    CASE i = 0 -> "0"
      [] i = 1 -> "1"
      [] i = 2 -> "2"
      [] OTHER -> "3"

NoRow == [err |-> "", has |-> FALSE, rk |-> "", st |-> "+"]

\* Lines 1115-1125 (process_dict), 1263-1273 (process_stream): the key of a
\* dictionary or stream.
SelectRowByKey(dom, arl, key) ==
    IF arl = "" THEN NoRow
    ELSE LET arlobj == GetObj(dom, arl) IN
         IF HasKey(arlobj, "*")
         THEN [err |-> "", has |-> TRUE, rk |-> "*", st |-> "="]
         ELSE IF HasKey(arlobj, key)
              THEN [err |-> "", has |-> TRUE, rk |-> key, st |-> "?"]
              ELSE NoRow

\* Lines 1414-1421 (process_array): the index of an array element.
SelectRowByIndex(dom, arl, i) ==
    IF arl = "" THEN NoRow
    ELSE LET arlobj == GetObj(dom, arl) IN
         IF HasKey(arlobj, "*")
         THEN [err |-> "", has |-> TRUE, rk |-> "*", st |-> "="]
         ELSE IF i < Len(arlobj.keys)
              THEN IF HasKey(arlobj, IndexKey(i))
                   THEN [err |-> "", has |-> TRUE, rk |-> IndexKey(i), st |-> "?"]
                   ELSE [err |-> "KeyError", has |-> FALSE, rk |-> "", st |-> "?"]
              ELSE NoRow

SelectRow(dom, fr, c) ==
    IF NodeKind(fr.node) = "array"
    THEN SelectRowByIndex(dom, fr.arl, fr.i - 1)
    ELSE SelectRowByKey(dom, fr.arl, c.key)

\* What evaluating row['Link'][idx] and reducing it raises, "" for nothing.
LinkAtErr(row, idx) ==
    IF row.Link.k = "none" THEN "TypeError"
    ELSE IF idx >= Len(row.Link.l) THEN "IndexError"
    ELSE IF ReduceRaises(row.Link.l[idx + 1]) THEN "TypeError"
    ELSE ""

NoLinks == [none |-> TRUE, names |-> <<>>]

Unmatched(sel) == [err |-> "", st |-> sel.st, cl |-> NoLinks, mode |-> "recurse"]

\* Lines 1131-1138: a child that is a pikepdf.Dictionary.
MatchDictionary(row, sel) ==
    LET idx == find_pdf_type([islist |-> TRUE,
                              names |-> <<"dictionary", "name-tree", "number-tree">>],
                             row.Type)
    IN  IF idx = -1 THEN Unmatched(sel)
        ELSE IF LinkAtErr(row, idx) # ""
             THEN [err |-> LinkAtErr(row, idx), st |-> "=", cl |-> NoLinks, mode |-> "recurse"]
             ELSE [err  |-> "",
                   st   |-> "=",
                   cl   |-> reduce_linkslist(row.Link.l[idx + 1]),
                   mode |-> IF row.Type[idx + 1] \in {Str("name-tree"), Str("number-tree")}
                            THEN "tree" ELSE "recurse"]

\* Lines 1151-1156: a child that is a pikepdf.Stream.
MatchStream(row, sel) ==
    LET idx == find_pdf_type([islist |-> FALSE, names |-> <<"stream">>], row.Type)
    IN  IF idx = -1 THEN Unmatched(sel)
        ELSE IF LinkAtErr(row, idx) # ""
             THEN [err |-> LinkAtErr(row, idx), st |-> "=", cl |-> NoLinks, mode |-> "recurse"]
             ELSE [err  |-> "",
                   st   |-> "=",
                   cl   |-> reduce_linkslist(row.Link.l[idx + 1]),
                   mode |-> "recurse"]

\* Lines 1166-1179: a child that is a pikepdf.Array.
MatchArray(row, sel) ==
    LET idx == find_pdf_type([islist |-> TRUE,
                              names |-> <<"array", "matrix", "rectangle">>],
                             row.Type)
    IN  IF idx = -1 THEN Unmatched(sel)
        ELSE IF row.Type[idx + 1] = Str("array")
             THEN IF LinkAtErr(row, idx) # ""
                  THEN [err |-> LinkAtErr(row, idx), st |-> "=", cl |-> NoLinks,
                        mode |-> "recurse"]
                  ELSE [err |-> "", st |-> "=",
                        cl |-> reduce_linkslist(row.Link.l[idx + 1]), mode |-> "recurse"]
             ELSE [err  |-> "",
                   st   |-> "=",
                   cl   |-> NoLinks,
                   mode |-> IF row.Type[idx + 1] = Str("rectangle") THEN "rect"
                            ELSE IF row.Type[idx + 1] = Str("matrix") THEN "matrix"
                            ELSE "recurse"]

MatchContainer(dom, fr, c, sel) ==
    IF ~sel.has THEN Unmatched(sel)
    ELSE LET row == GetRow(GetObj(dom, fr.arl), sel.rk) IN
         CASE c.kind = "dict"   -> MatchDictionary(row, sel)
           [] c.kind = "stream" -> MatchStream(row, sel)
           [] OTHER             -> MatchArray(row, sel)

\* Lines 1103-1110: the head of process_dict / process_stream / process_array.
Prolog(dom, cl) ==
    IF cl.none THEN [err |-> "", arl |-> ""]
    ELSE IF cl.names = <<>> THEN [err |-> "IndexError", arl |-> ""]
    ELSE IF ~HasObj(dom, cl.names[1]) THEN [err |-> "KeyError", arl |-> ""]
    ELSE [err |-> "", arl |-> cl.names[1]]

\* What the walk would be without the test of self.__visited, without the
\* append to it, and without the "already visited" line.
AlreadyVisitedNever(d, vis, id) == FALSE

MarkVisitedForgets(d, vis, id) == vis

LineWithoutVisited(st, fr, c, rk, what) ==
    [st |-> st, arl |-> fr.arl, parent |-> fr.node, key |-> c.key, rk |-> rk,
     d |-> IF what = "visited" THEN "as" ELSE what, n |-> c.id]

\* Lines 1139-1145: the test of self.__visited made for an indirect child.
AlreadyVisited(d, vis, id) == d.ref[id] /\ id \in vis

MarkVisited(d, vis, id) == IF d.ref[id] THEN vis \cup {id} ELSE vis

\* process_matrix (n = 6) and process_rect (n = 4): mtx[0] .. mtx[n-1] are
\* read and formatted with %.5f.
TupleErr(d, id, n) ==
    IF Len(d.kids[id]) < n THEN "IndexError"
    ELSE IF \E j \in 1..n : d.kids[id][j].kind \notin {"int", "real"} THEN "TypeError"
    ELSE ""

Line(st, fr, c, rk, what) ==
    [st |-> st, arl |-> fr.arl, parent |-> fr.node, key |-> c.key, rk |-> rk,
     d |-> what, n |-> c.id]

Advance(stk) == [stk EXCEPT ![Len(stk)].i = @ + 1]

Walk(w, s, v, o, e) == [wpc |-> w, stack |-> s, visited |-> v, out |-> o, entered |-> e]

\* One iteration of the loop over the children, for a container child.
ContainerStep(dom, d, stk, vis, o, ent) ==
    LET fr  == stk[Len(stk)]
        c   == d.kids[fr.node][fr.i]
        sel == SelectRow(dom, fr, c)
    IN  IF sel.err # "" THEN Walk(sel.err, stk, vis, o, ent)
        ELSE LET m == MatchContainer(dom, fr, c, sel) IN
             IF m.err # "" THEN Walk(m.err, stk, vis, o, ent)
             ELSE IF AlreadyVisited(d, vis, c.id)
                  THEN Walk("walking", Advance(stk), vis,
                            Append(o, Line(m.st, fr, c, sel.rk, "visited")), ent)
             ELSE LET vis2 == MarkVisited(d, vis, c.id) IN
                  CASE m.mode = "tree" ->
                         Walk("walking", Advance(stk), vis2,
                              Append(o, Line(m.st, fr, c, sel.rk, "tree")), ent)
                    [] m.mode \in {"matrix", "rect"} ->
                         LET n == IF m.mode = "matrix" THEN 6 ELSE 4 IN
                         IF TupleErr(d, c.id, n) # ""
                         THEN Walk(TupleErr(d, c.id, n), stk, vis2, o, ent)
                         ELSE Walk("walking", Advance(stk), vis2,
                                   Append(o, Line(m.st, fr, c, sel.rk, m.mode)), ent)
                    [] OTHER ->
                         LET o2   == Append(o, Line(m.st, fr, c, sel.rk, "as"))
                             ent2 == [ent EXCEPT ![c.id] = @ + 1]
                             pro  == Prolog(dom, m.cl)
                         IN  IF Len(stk) >= RecursionLimit
                             THEN Walk("RecursionError", stk, vis2, o2, ent2)
                             ELSE IF pro.err # ""
                             THEN Walk(pro.err, stk, vis2, o2, ent2)
                             ELSE Walk("walking",
                                       Append(Advance(stk),
                                              [node |-> c.id, arl |-> pro.arl, i |-> 1]),
                                       vis2, o2, ent2)

\* Lines 1194-1199: a child that is a pikepdf.Name.
ScalarStep(dom, d, stk, vis, o, ent) ==
    LET fr  == stk[Len(stk)]
        c   == d.kids[fr.node][fr.i]
        sel == SelectRow(dom, fr, c)
    IN  IF sel.err # "" THEN Walk(sel.err, stk, vis, o, ent)
        ELSE LET st == IF /\ sel.has
                          /\ find_pdf_type([islist |-> FALSE, names |-> <<"name">>],
                                           GetRow(GetObj(dom, fr.arl), sel.rk).Type) # -1
                       THEN "=" ELSE sel.st
             IN  Walk("walking", Advance(stk), vis,
                      Append(o, Line(st, fr, c, sel.rk, "value")), ent)

\* Lines 1238-1240: no isinstance branch applies: logging.critical, sys.exit().
UnexpectedStep(dom, d, stk, vis, o, ent) ==
    LET fr  == stk[Len(stk)]
        c   == d.kids[fr.node][fr.i]
        sel == SelectRow(dom, fr, c)
    IN  IF sel.err # "" THEN Walk(sel.err, stk, vis, o, ent)
        ELSE Walk("SystemExit", stk, vis, o, ent)

Effect(r) ==
    /\ wpc' = r.wpc
    /\ stack' = r.stack
    /\ visited' = r.visited
    /\ out' = r.out
    /\ entered' = r.entered
    /\ UNCHANGED <<pdfdom, exported, validating>>
    /\ UNCHANGED fvars
    /\ UNCHANGED vvars
    /\ UNCHANGED avars
    /\ UNCHANGED ivars

Becomes(r) == Effect(r) /\ UNCHANGED <<doc, ndocs>>

\* No document opened yet.
NoDoc == [ref |-> [n \in 0..3 |-> FALSE], kids |-> [n \in 0..3 |-> <<>>], ttype |-> "absent"]

\* The documents validate_pdf_file is given.
Documents ==
    { MkDoc(x[1], x[2], x[3], x[4]) :
        x \in { y \in UNION { {es} \X [es -> 1..5] \X [Containers -> BOOLEAN] \X TrailerTypes
                              : es \in EdgeSets } :
                 WellFormedDoc(y[1], y[2], y[3]) } }

\* The documents of a directory after its first one (lines 1618-1634): a
\* trailer without Type that has one child.
LaterDocuments ==
    { d \in Documents : \A n \in 0..3 : Len(d.kids[n]) = (IF n = 0 THEN 1 ELSE 0) }

MaxDocs == 2

\* The ends of validate_pdf_file after which the loop of line 1618 calls it
\* again: a return, or an exception that line 1628 catches (SystemExit is
\* no Exception).
CaughtEnds == {"done", "TypeError", "IndexError", "KeyError", "RecursionError"}

NewVisitedKept(vis) == vis

\* Line 1545: self.__visited = [].
NewVisited(vis) == {}

\* validate_pdf_file, lines 1541-1555, up to the first iteration of the walk.
\* Its output goes to the file opened for this document (line 1626).
validate_pdf_file ==
    /\ vpc \notin {"start", "rows"}
    /\ ndocs < MaxDocs
    /\ IF ndocs = 0 THEN wpc = "idle" ELSE wpc \in CaughtEnds
    /\ ndocs' = ndocs + 1
    /\ \E d \in (IF ndocs = 0 THEN Documents ELSE LaterDocuments) :
        LET root == IF d.ttype = "XRef" THEN "XRefStream" ELSE "FileTrailer"
            pro  == Prolog(pdfdom, [none |-> FALSE, names |-> <<root>>])
            vis  == NewVisited(visited)
            ent  == [n \in 0..3 |-> 0]
        IN  /\ doc' = d
            /\ IF d.ttype = "Other"
               THEN Effect(Walk("done", <<>>, vis, <<>>, ent))
               ELSE IF pro.err # ""
               THEN Effect(Walk(pro.err, <<>>, vis, <<>>, [ent EXCEPT ![0] = 1]))
               ELSE Effect(Walk("walking", <<[node |-> 0, arl |-> pro.arl, i |-> 1]>>, vis,
                                <<>>, [ent EXCEPT ![0] = 1]))

ChildDictionary ==
    /\ HasChild
    /\ CurChild.kind = "dict"
    /\ Becomes(ContainerStep(pdfdom, doc, stack, visited, out, entered))

ChildStream ==
    /\ HasChild
    /\ CurChild.kind = "stream"
    /\ Becomes(ContainerStep(pdfdom, doc, stack, visited, out, entered))

ChildArray ==
    /\ HasChild
    /\ CurChild.kind = "array"
    /\ Becomes(ContainerStep(pdfdom, doc, stack, visited, out, entered))

ChildName ==
    /\ HasChild
    /\ CurChild.kind = "name"
    /\ Becomes(ScalarStep(pdfdom, doc, stack, visited, out, entered))

ChildUnexpected ==
    /\ HasChild
    /\ CurChild.kind = "other"
    /\ Becomes(UnexpectedStep(pdfdom, doc, stack, visited, out, entered))

\* The loop of a process_* call is over: return to the caller's loop.
ReturnToCaller ==
    /\ wpc = "walking"
    /\ Len(stack) > 1
    /\ Top.i > Len(doc.kids[Top.node])
    /\ Becomes(Walk("walking", SubSeq(stack, 1, Len(stack) - 1), visited, out, entered))

\* The call on the trailer returns to validate_pdf_file: pdf.close().
WalkDone ==
    /\ wpc = "walking"
    /\ Len(stack) = 1
    /\ Top.i > Len(doc.kids[Top.node])
    /\ Becomes(Walk("done", <<>>, visited, out, entered))

(***************************************************************************)
(* The schemas the walk is checked against, as TSV columns.                *)
(***************************************************************************)
NoCol == <<>>

Ver(x) == <<TNum(x)>>

MkObj(name, keys, rows) == [name |-> name, keys |-> keys, rows |-> rows]

DictOrStream == <<TName("dictionary"), TName("stream")>>

ToObjA2 == <<TBrk(<<"ObjA">>), TBrk(<<"ObjA">>)>>

\* Exact keys, every link bracketed and resolvable.
PlainSchema ==
    << MkObj("FileTrailer", <<"A", "B">>,
             << MkRow(DictOrStream, ToObjA2, NoCol, Ver("1.0")),
                MkRow(<<TName("array")>>, <<TBrk(<<"ObjB">>)>>, NoCol, Ver("1.0")) >>),
       MkObj("XRefStream", <<"A", "Type">>,
             << MkRow(DictOrStream, ToObjA2, NoCol, Ver("1.5")),
                MkRow(<<TName("name")>>, NoCol, NoCol, Ver("1.5")) >>),
       MkObj("ObjA", <<"A", "B">>,
             << MkRow(DictOrStream, ToObjA2, NoCol, Ver("1.0")),
                MkRow(<<TName("array"), TName("name")>>,
                      <<TBrk(<<"ObjB">>), TBrk(<<>>)>>, NoCol, Ver("1.0")) >>),
       MkObj("ObjB", <<"0", "1">>,
             << MkRow(<<TName("dictionary")>>, <<TBrk(<<"ObjA">>)>>, NoCol, Ver("1.0")),
                MkRow(<<TName("array"), TName("stream")>>,
                      <<TBrk(<<"ObjB">>), TBrk(<<"ObjA">>)>>, NoCol, Ver("1.0")) >>) >>

\* Wildcard keys, one object with an exact key beside its wildcard, a
\* name-tree and a matrix.
WildcardSchema ==
    << MkObj("FileTrailer", <<"A", "*">>,
             << MkRow(<<TName("name")>>, NoCol, NoCol, Ver("1.0")),
                MkRow(DictOrStream, ToObjA2, NoCol, Ver("1.0")) >>),
       MkObj("XRefStream", <<"*">>,
             << MkRow(<<TName("array")>>, <<TBrk(<<"ObjB">>)>>, NoCol, Ver("1.5")) >>),
       MkObj("ObjA", <<"*">>,
             << MkRow(<<TName("name-tree"), TName("stream")>>, ToObjA2, NoCol, Ver("1.0")) >>),
       MkObj("ObjB", <<"*">>,
             << MkRow(<<TName("matrix")>>, NoCol, NoCol, Ver("1.0")) >>) >>

\* A schema with the defects the static pass is there to find: an empty
\* Link column, unbracketed links, a repeating array key.
DefectiveSchema ==
    << MkObj("FileTrailer", <<"A", "B">>,
             << MkRow(<<TName("dictionary")>>, NoCol, NoCol, Ver("1.0")),
                MkRow(<<TName("array")>>, <<TBrk(<<"ObjT">>)>>, NoCol, Ver("1.0")) >>),
       MkObj("XRefStream", <<"A", "Type">>,
             << MkRow(DictOrStream, <<TName("ObjA"), TName("ObjA")>>, NoCol, Ver("1.5")),
                MkRow(<<TName("name")>>, NoCol, NoCol, Ver("1.5")) >>),
       MkObj("ObjA", <<"A">>,
             << MkRow(<<TName("integer")>>, NoCol, NoCol, Ver("1.0")) >>),
       MkObj("ObjT", <<"0*">>,
             << MkRow(<<TName("name")>>, NoCol, NoCol, Ver("1.0")) >>) >>

\* Name trees, number trees and a matrix that were introduced in a later
\* version.
SinceTree(t) == TFn("fn:SinceVersion(", <<"1.2", t>>)

VersionedSchema ==
    << MkObj("FileTrailer", <<"A", "B">>,
             << MkRow(<<SinceTree("name-tree"), TName("stream")>>, ToObjA2, NoCol, Ver("1.0")),
                MkRow(<<TName("array")>>, <<TBrk(<<"ObjB">>)>>, NoCol, Ver("1.0")) >>),
       MkObj("XRefStream", <<"A", "Type">>,
             << MkRow(DictOrStream, ToObjA2, NoCol, Ver("1.5")),
                MkRow(<<TName("name")>>, NoCol, NoCol, Ver("1.5")) >>),
       MkObj("ObjA", <<"A", "B">>,
             << MkRow(<<SinceTree("number-tree"), TName("stream")>>, ToObjA2, NoCol,
                      Ver("1.0")),
                MkRow(<<SinceTree("matrix")>>, NoCol, NoCol, Ver("1.0")) >>),
       MkObj("ObjB", <<"0", "1">>,
             << MkRow(<<SinceTree("name-tree")>>, <<TBrk(<<"ObjA">>)>>, NoCol, Ver("1.0")),
                MkRow(<<TName("name-tree")>>, <<TBrk(<<"ObjA">>)>>, NoCol, Ver("1.0")) >>) >>

WalkSchemas == {PlainSchema, WildcardSchema, DefectiveSchema, VersionedSchema}

WalkInit ==
    /\ pdfdom \in WalkSchemas
    /\ doc = NoDoc
    /\ wpc = "idle"
    /\ stack = <<>>
    /\ visited = {}
    /\ out = <<>>
    /\ entered = [n \in 0..3 |-> 0]
    /\ ndocs = 0
    /\ exported = NoneV
    /\ validating = FALSE
    /\ FindIdle
    /\ ValidateIdle
    /\ AstIdle
    /\ IngestIdle

WalkNext ==
    \/ validate_pdf_file
    \/ ChildDictionary
    \/ ChildStream
    \/ ChildArray
    \/ ChildName
    \/ ChildUnexpected
    \/ ReturnToCaller
    \/ WalkDone

SpecWalk == WalkInit /\ [][WalkNext]_vars

\* The steps of a walk that has been started.
WalkStep ==
    \/ ChildDictionary
    \/ ChildStream
    \/ ChildArray
    \/ ChildName
    \/ ChildUnexpected
    \/ ReturnToCaller
    \/ WalkDone

\* A step of the walk can be taken exactly while the walk is under way: in
\* that state the loop has a child of one of the five kinds to look at, or
\* has run out of children and returns.  This is ENABLED <<WalkStep>>_vars.
WalkStepEnabled == wpc = "walking"

\* The interpreter runs a started walk to its end: no step of it waits on
\* anything.  Whether validate_pdf_file is ever called is up to the caller.
\* The fairness condition is WF_vars(WalkStep) with its ENABLED written out.
SpecWalkFair ==
    SpecWalk /\ ([]<>(~WalkStepEnabled) \/ []<><<WalkStep>>_vars)

(***************************************************************************)
(* The static pass over the Dom: __validate_pdf_dom, called by __init__    *)
(* when validating.  The columns Inheritable and DeprecatedIn of every row *)
(* drawn below are FALSE and '', for which lines 907-908 and 925-926 log   *)
(* nothing and raise nothing; keys are plain names or '*', which the test  *)
(* of lines 886-888 lets through.                                          *)
(*                                                                         *)
(* A finding is [obj, key, what, i]: one logging.error / logging.critical  *)
(* call, i the 0-based type alternative it is about (-1 when about the row *)
(* or the object).  A raised exception leaves __validate_pdf_dom and is    *)
(* caught by __init__ (line 857): vpc becomes its name.                    *)
(***************************************************************************)
Finding(o, k, what, i) == [obj |-> o, key |-> k, what |-> what, i |-> i]

\* The known types in the order of Python's str comparison.
SortedTypes ==
    << "array", "bitmask", "boolean", "date", "dictionary", "integer", "matrix",
       "name", "name-tree", "null", "number", "number-tree", "rectangle", "stream",
       "string", "string-ascii", "string-byte", "string-text" >>

TypeRank(t) == CHOOSE i \in 1..Len(SortedTypes) : SortedTypes[i] = t

\* Lines 890-894.
TypesSorted(row) ==
    LET reduced_types == reduce_typelist(row.Type)
    IN  \A i \in 1..(Len(reduced_types) - 1) :
           TypeRank(reduced_types[i]) <= TypeRank(reduced_types[i + 1])

\* An int literal, as opposed to a float.
IsInt(v) == v.k = "num" /\ v.s \in {"0", "1", "2"}

\* Lines 896-905: [findings, err] of the SinceVersion test.
CheckSinceVersion(o, k, row) ==
    LET sv == row.SinceVersion IN
    CASE sv.k = "list" ->
           IF \E j \in 1..Len(sv.l) : sv.l[j].k \in {"num", "none", "tok"}
           THEN [f |-> {}, err |-> "TypeError"]
           ELSE IF \E j \in 1..Len(sv.l) :
                     \/ sv.l[j].k = "str"
                     \/ (sv.l[j].k = "list" /\ sv.l[j].l # <<>> /\ sv.l[j].l[1].k # "tok")
                THEN [f |-> {}, err |-> "AttributeError"]
                ELSE IF \E j \in 1..Len(sv.l) : sv.l[j].l = <<>>
                     THEN [f |-> {}, err |-> "IndexError"]
                     ELSE [f |-> {}, err |-> ""]
      [] sv.k = "num" /\ ~IsInt(sv) ->
           [f |-> IF sv.s \in pdf_versions THEN {}
                  ELSE {Finding(o, k, "SinceVersion unexpected version", -1)},
            err |-> ""]
      [] OTHER ->
           [f |-> {Finding(o, k, "SinceVersion unexpected value", -1)}, err |-> ""]

\* Lines 910-913: the elements of row['Required'] that are lists, in order;
\* v[0] of an empty list and .type of a str or a list raise.
RECURSIVE CheckRequiredFrom(_, _, _, _)
CheckRequiredFrom(o, k, req, j) ==
    IF j > Len(req) THEN [f |-> {}, err |-> ""]
    ELSE LET v == req[j] IN
         IF v.k # "list" THEN CheckRequiredFrom(o, k, req, j + 1)
         ELSE IF v.l = <<>> THEN [f |-> {}, err |-> "IndexError"]
         ELSE IF v.l[1].k # "tok" THEN [f |-> {}, err |-> "AttributeError"]
         ELSE LET bad  == IF /\ TokType(v.l[1].s) # "FUNC_NAME"
                             /\ v.l[1].s # "fn:IsRequired("
                          THEN {Finding(o, k, "Required does not start with fn:IsRequired", -1)}
                          ELSE {}
                  rest == CheckRequiredFrom(o, k, req, j + 1)
              IN  [f |-> bad \cup rest.f, err |-> rest.err]

CheckRequired(o, k, row) == CheckRequiredFrom(o, k, row.Required.l, 1)

\* Lines 938-959: the DefaultValue of alternative i (0-based) against the
\* type t.
CheckDefaultValue(o, k, row, i, t) ==
    IF row.DefaultValue.k = "none" THEN [f |-> {}, err |-> ""]
    ELSE IF i >= Len(row.DefaultValue.l) THEN [f |-> {}, err |-> "IndexError"]
    ELSE LET dv  == row.DefaultValue.l[i + 1]
             bad == Finding(o, k, "DefaultValue is not of the type", i)
         IN  IF dv.k = "none" THEN [f |-> {}, err |-> ""]
             ELSE CASE t = "name"    -> [f |-> IF dv.k \in {"str", "list"} THEN {} ELSE {bad},
                                         err |-> ""]
                    [] t = "array"   -> [f |-> IF dv.k = "list" THEN {} ELSE {bad}, err |-> ""]
                    [] t = "boolean" -> [f |-> IF dv.k \in {"bool", "list"} THEN {} ELSE {bad},
                                         err |-> ""]
                    [] t = "number"  -> [f |-> IF dv.k \in {"num", "bool", "list"} THEN {}
                                               ELSE {bad},
                                         err |-> ""]
                    [] t = "integer" -> [f |-> IF IsInt(dv) \/ dv.k \in {"bool", "list"} THEN {}
                                               ELSE {bad},
                                         err |-> ""]
                    [] IsSubstr("string", t) /\ t \notin {"name", "array", "boolean",
                                                          "number", "integer"} ->
                         IF dv.k \notin {"str", "list"} THEN [f |-> {bad}, err |-> ""]
                         ELSE IF dv.k = "list" THEN [f |-> {}, err |-> ""]
                         ELSE IF Chars(dv.s) = <<>> THEN [f |-> {}, err |-> "IndexError"]
                         ELSE IF Chars(dv.s)[1] # "'" \/ Chars(dv.s)[Len(Chars(dv.s))] # "'"
                              THEN [f |-> {Finding(o, k, "DefaultValue is not quoted", i)},
                                    err |-> ""]
                              ELSE [f |-> {}, err |-> ""]
                    [] OTHER -> [f |-> {}, err |-> ""]

\* Lines 915-923: the number of entries of IndirectReference, then the entry
\* at the index __find_pdf_type gives for 'stream'.
CheckIndirectReference(o, k, row) ==
    LET ir    == row.IndirectReference
        count == IF Len(ir.l) > 1 /\ Len(row.Type) # Len(ir.l)
                 THEN {Finding(o, k, "Incorrect number of elements in IndirectReference", -1)}
                 ELSE {}
        i     == find_pdf_type([islist |-> FALSE, names |-> <<"stream">>], row.Type)
    IN  IF i = -1 THEN [f |-> count, err |-> ""]
        ELSE IF i >= Len(ir.l) THEN [f |-> count, err |-> "IndexError"]
        ELSE [f   |-> count \cup (IF ir.l[i + 1] = Bool("True") THEN {}
                                  ELSE {Finding(o, k, "stream requires IndirectReference", i)}),
              err |-> ""]

\* Lines 963-1015: the PossibleValues of alternative i (0-based) against
\* the type t; pv[j] below is row['PossibleValues'][i][j].  No row drawn
\* has PossibleValues on a string type (lines 995-1015).
CheckPossibleValues(o, k, row, i, t) ==
    IF row.PossibleValues.k = "none" THEN [f |-> {}, err |-> ""]
    ELSE IF i >= Len(row.PossibleValues.l) THEN [f |-> {}, err |-> "IndexError"]
    ELSE LET pv  == row.PossibleValues.l[i + 1]
             bad == {Finding(o, k, "PossibleValues is not of the type", i)}
             Each(kinds) == IF \A j \in 1..Len(pv.l) : pv.l[j].k \in kinds THEN {} ELSE bad
         IN  IF pv.k = "none" THEN [f |-> {}, err |-> ""]
             ELSE CASE t = "name" ->
                         [f |-> IF pv.k = "list" THEN Each({"str", "list"})
                                ELSE IF pv.k = "str" THEN {} ELSE bad,
                          err |-> ""]
                    [] t = "array" ->
                         [f |-> IF pv.k = "list" THEN Each({"list"}) ELSE bad, err |-> ""]
                    [] t = "boolean" ->
                         [f |-> IF pv.k = "list" THEN Each({"bool", "list"})
                                ELSE IF pv.k = "bool" THEN {} ELSE bad,
                          err |-> ""]
                    [] t = "number" ->
                         [f |-> IF pv.k = "list" THEN Each({"num", "bool", "list"})
                                ELSE IF pv.k \in {"num", "bool"} THEN {} ELSE bad,
                          err |-> ""]
                    [] t = "integer" ->
                         [f |-> IF pv.k = "list"
                                THEN IF \A j \in 1..Len(pv.l) :
                                           IsInt(pv.l[j]) \/ pv.l[j].k \in {"bool", "list"}
                                     THEN {} ELSE bad
                                ELSE IF IsInt(pv) \/ pv.k = "bool" THEN {} ELSE bad,
                          err |-> ""]
                    [] OTHER -> [f |-> {}, err |-> ""]

\* Lines 1017-1041: the Link of alternative i (0-based) against the type t.
CheckLink(dom, o, k, row, i, t) ==
    IF row.Link.k = "none" THEN [f |-> {}, err |-> ""]
    ELSE IF i >= Len(row.Link.l) THEN [f |-> {}, err |-> "IndexError"]
    ELSE LET lk == row.Link.l[i + 1] IN
         IF t \in links_required
         THEN CASE lk.k = "none" ->
                     [f |-> {Finding(o, k, "Link is missing", i)}, err |-> ""]
                [] lk.k \notin {"str", "list"} ->
                     [f |-> {Finding(o, k, "Link is not a list", i)}, err |-> ""]
                [] lk.k = "str" ->
                     \* self.__pdfdom[lnk]: a KeyError, never None
                     [f |-> {}, err |-> IF HasObj(dom, lk.s) THEN "" ELSE "KeyError"]
                [] OTHER ->
                     LET strs  == { j \in 1..Len(lk.l) : lk.l[j].k = "str" }
                         first == IF \E j \in strs : ~HasObj(dom, lk.l[j].s)
                                  THEN CHOOSE j \in strs :
                                         /\ ~HasObj(dom, lk.l[j].s)
                                         /\ \A h \in strs : ~HasObj(dom, lk.l[h].s) => j <= h
                                  ELSE Len(lk.l) + 1
                     IN  [f   |-> { Finding(o, k, "Link is not a function", i) :
                                      j \in { h \in 1..Len(lk.l) :
                                                h < first /\ lk.l[h].k \notin {"str", "list"} } },
                          err |-> IF first <= Len(lk.l) THEN "KeyError" ELSE ""]
         ELSE [f |-> IF lk.k # "none" THEN {Finding(o, k, "Link exists", i)} ELSE {},
               err |-> ""]

\* Lines 1043-1055: an alternative that is a list, a version wrapper.  The
\* only tokens ingestion leaves in a Type are FUNC_NAME tokens.
CheckWrapper(o, k, i, t) ==
    LET w == IF t.l # <<>> /\ t.l[1].k = "list" THEN t.l[1] ELSE t IN
    IF t.l = <<>> THEN [f |-> {}, err |-> "IndexError"]
    ELSE IF w.l = <<>> THEN [f |-> {}, err |-> "IndexError"]
    ELSE IF w.l[1].k # "tok" THEN [f |-> {}, err |-> "AttributeError"]
    ELSE IF Len(w.l) < 2 THEN [f |-> {}, err |-> "IndexError"]
    ELSE IF w.l[2].k = "str"
         THEN IF Len(Chars(w.l[2].s)) < 2 THEN [f |-> {}, err |-> "IndexError"]
              ELSE [f |-> {Finding(o, k, "Unknown type inside function", i)}, err |-> ""]
    ELSE IF w.l[2].k # "list" THEN [f |-> {}, err |-> "TypeError"]
    ELSE IF Len(w.l[2].l) < 2 THEN [f |-> {}, err |-> "IndexError"]
    ELSE [f |-> IF w.l[2].l[2].k = "str" /\ w.l[2].l[2].s \in known_types THEN {}
                ELSE {Finding(o, k, "Unknown type inside function", i)},
          err |-> ""]

\* Lines 933-1055: the loop over the alternatives of row['Type'] from the
\* i-th on (0-based); the first exception ends it.
RECURSIVE CheckAlternatives(_, _, _, _, _)
CheckAlternatives(dom, o, k, row, i) ==
    IF i >= Len(row.Type) THEN [f |-> {}, err |-> ""]
    ELSE LET t == row.Type[i + 1] IN
         IF t.k = "str"
         THEN LET unknown == IF t.s \in known_types THEN {}
                             ELSE {Finding(o, k, "Unknown Arlington type", i)}
                  dv      == CheckDefaultValue(o, k, row, i, t.s)
                  pv      == CheckPossibleValues(o, k, row, i, t.s)
                  lk      == CheckLink(dom, o, k, row, i, t.s)
              IN  IF dv.err # "" THEN [f |-> unknown, err |-> dv.err]
                  ELSE IF pv.err # "" THEN [f |-> unknown \cup dv.f, err |-> pv.err]
                  ELSE IF lk.err # ""
                  THEN [f |-> unknown \cup dv.f \cup pv.f \cup lk.f, err |-> lk.err]
                  ELSE LET rest == CheckAlternatives(dom, o, k, row, i + 1)
                       IN  [f   |-> unknown \cup dv.f \cup pv.f \cup lk.f \cup rest.f,
                            err |-> rest.err]
         ELSE IF t.k = "list"
         THEN LET w == CheckWrapper(o, k, i, t) IN
              IF w.err # "" THEN w
              ELSE LET rest == CheckAlternatives(dom, o, k, row, i + 1)
                   IN  [f |-> w.f \cup rest.f, err |-> rest.err]
         ELSE CheckAlternatives(dom, o, k, row, i + 1)

\* Lines 881-1055: everything done for one (obj_name, keyname, row).
CheckRow(dom, o, k, row) ==
    LET sorted == IF TypesSorted(row) THEN {}
                  ELSE {Finding(o, k, "Types are not sorted", -1)}
        sv     == CheckSinceVersion(o, k, row)
        req    == CheckRequired(o, k, row)
        ir     == CheckIndirectReference(o, k, row)
        count  == IF /\ row.DefaultValue.k # "none"
                     /\ Len(row.Type) # Len(row.DefaultValue.l)
                  THEN {Finding(o, k, "Incorrect number of elements in DefaultValue", -1)}
                  ELSE {}
        alts   == CheckAlternatives(dom, o, k, row, 0)
    IN  IF sv.err # "" THEN [f |-> sorted, err |-> sv.err]
        ELSE IF req.err # "" THEN [f |-> sorted \cup sv.f \cup req.f, err |-> req.err]
        ELSE IF ir.err # ""
        THEN [f |-> sorted \cup sv.f \cup req.f \cup ir.f, err |-> ir.err]
        ELSE [f   |-> sorted \cup sv.f \cup req.f \cup ir.f \cup count \cup alts.f,
              err |-> alts.err]

\* Lines 1060-1073: the links to obj_name counted over every row of every
\* object of the Dom.
RECURSIVE Occurrences(_, _)
Occurrences(names, x) ==
    IF names = <<>> THEN 0
    ELSE (IF names[1] = x THEN 1 ELSE 0) + Occurrences(Tail(names), x)

RECURSIVE SumOver(_, _, _)
SumOver(dom, x, cells) ==
    IF cells = {} THEN 0
    ELSE LET c == CHOOSE y \in cells : TRUE
             r == dom[c[1]].rows[c[2]]
         IN  (IF r.Link.k = "none" THEN 0
              ELSE Occurrences(reduce_linkslist(r.Link).names, x))
             + SumOver(dom, x, cells \ {c})

Cells(dom) == UNION { { <<i, j>> : j \in 1..Len(dom[i].keys) } : i \in 1..Len(dom) }

IncomingLinks(dom, x) == SumOver(dom, x, Cells(dom))

\* Lines 1075-1076.
Unlinked(dom, x) ==
    IF IncomingLinks(dom, x) = 0 /\ x # "FileTrailer" /\ x # "XRefStream"
    THEN {Finding(x, "", "Unlinked object", -1)}
    ELSE {}

ValidateErrors == {"KeyError", "IndexError", "TypeError", "AttributeError"}

\* Line 848: __init__ calls __validate_pdf_dom; lines 866-868.
validate_pdf_dom ==
    /\ vpc = "start"
    /\ vpc' = IF Len(pdfdom) = 0 THEN "done" ELSE "rows"
    /\ vobj' = 1
    /\ vkey' = 1
    /\ UNCHANGED <<pdfdom, findings, rowsChecked, orphansChecked, exported, validating>>
    /\ UNCHANGED fvars
    /\ UNCHANGED wvars
    /\ UNCHANGED avars
    /\ UNCHANGED ivars

\* One iteration of "for keyname in obj".
ValidateRow ==
    /\ vpc = "rows"
    /\ vobj <= Len(pdfdom)
    /\ vkey <= Len(pdfdom[vobj].keys)
    /\ LET o == pdfdom[vobj].name
           k == pdfdom[vobj].keys[vkey]
           r == CheckRow(pdfdom, o, k, pdfdom[vobj].rows[vkey])
       IN  /\ findings' = findings \cup r.f
           /\ IF r.err # ""
              THEN /\ vpc' = r.err
                   /\ UNCHANGED <<vobj, vkey, rowsChecked>>
              ELSE /\ vkey' = vkey + 1
                   /\ rowsChecked' = rowsChecked \cup {<<o, k>>}
                   /\ UNCHANGED <<vpc, vobj>>
    /\ UNCHANGED <<pdfdom, orphansChecked, exported, validating>>
    /\ UNCHANGED fvars
    /\ UNCHANGED wvars
    /\ UNCHANGED avars
    /\ UNCHANGED ivars

\* The rows of obj_name are done: its incoming links, then the next object.
ValidateIncoming ==
    /\ vpc = "rows"
    /\ vobj <= Len(pdfdom)
    /\ vkey > Len(pdfdom[vobj].keys)
    /\ findings' = findings \cup Unlinked(pdfdom, pdfdom[vobj].name)
    /\ orphansChecked' = orphansChecked \cup {pdfdom[vobj].name}
    /\ vobj' = vobj + 1
    /\ vkey' = 1
    /\ UNCHANGED <<pdfdom, vpc, rowsChecked, exported, validating>>
    /\ UNCHANGED fvars
    /\ UNCHANGED wvars
    /\ UNCHANGED avars
    /\ UNCHANGED ivars

\* "for obj_name in self.__pdfdom" is over: __validate_pdf_dom returns, and
\* __init__ goes on to its end (lines 851-856).
ValidateReturn ==
    /\ vpc = "rows"
    /\ vobj > Len(pdfdom)
    /\ vpc' = "done"
    /\ validating' = FALSE
    /\ UNCHANGED <<pdfdom, vobj, vkey, findings, rowsChecked, orphansChecked, exported>>
    /\ UNCHANGED fvars
    /\ UNCHANGED wvars
    /\ UNCHANGED avars
    /\ UNCHANGED ivars

(***************************************************************************)
(* The Doms the static pass is checked on: up to three TSV files of one    *)
(* row each, its key A or '*', in the order glob returns them, the row of  *)
(* each file one of the rows below, written as its Type, Link,             *)
(* DefaultValue, SinceVersion and Required columns.  No file is named      *)
(* ObjC.                                                                   *)
(***************************************************************************)
ArrayOrDict == <<TName("array"), TName("dictionary")>>

NotRequired == <<TBool("FALSE")>>

IntOrName == <<TName("integer"), TName("name")>>

ValidateRows ==
    { \* integer, no link
      MkRow(<<TName("integer")>>, NoCol, NoCol, Ver("1.0")),
      \* dictionary with a bracketed link to a file that exists
      MkRow(<<TName("dictionary")>>, <<TBrk(<<"ObjA">>)>>, NoCol, Ver("1.0")),
      MkRow(<<TName("dictionary")>>, <<TBrk(<<"ObjB">>)>>, NoCol, Ver("1.0")),
      \* ... and to one that does not
      MkRow(<<TName("dictionary")>>, <<TBrk(<<"ObjC">>)>>, NoCol, Ver("1.0")),
      \* Type=array;dictionary with Link=ObjA;ObjB
      MkRow(ArrayOrDict, <<TName("ObjA"), TName("ObjB")>>, NoCol, Ver("1.0")),
      \* Type=array;dictionary with Link=[ObjA];[ObjB] and Link=[ObjA];[ObjC]
      MkRow(ArrayOrDict, <<TBrk(<<"ObjA">>), TBrk(<<"ObjB">>)>>, NoCol, Ver("1.0")),
      MkRow(ArrayOrDict, <<TBrk(<<"ObjA">>), TBrk(<<"ObjC">>)>>, NoCol, Ver("1.0")),
      \* dictionary with an empty Link column
      MkRow(<<TName("dictionary")>>, NoCol, NoCol, Ver("1.0")),
      \* integer with a link
      MkRow(<<TName("integer")>>, <<TBrk(<<"ObjA">>)>>, NoCol, Ver("1.0")),
      \* two types, one link
      MkRow(ArrayOrDict, <<TBrk(<<"ObjA">>)>>, NoCol, Ver("1.0")),
      \* a dictionary since 2.0
      MkRow(<<TFn("fn:SinceVersion(", <<"2.0", "dictionary">>)>>, <<TBrk(<<"ObjA">>)>>,
            NoCol, Ver("1.0")),
      \* two types, one default value
      MkRow(IntOrName, NoCol, <<TNum("1")>>, Ver("1.0")),
      \* two types, two default values, no links
      MkRow(IntOrName, <<TBrk(<<>>), TBrk(<<>>)>>, <<TNum("1"), TName("Foo")>>, Ver("1.0")),
      \* types out of order, a version that does not exist
      MkRow(<<TName("name"), TName("integer")>>, NoCol, NoCol, Ver("3.0")),
      \* Type=text;array, the first of them no Arlington type
      MkRow(<<TName("text"), TName("array")>>, <<TBrk(<<>>), TBrk(<<"ObjA">>)>>,
            NoCol, Ver("1.0")),
      \* a stream that must be indirect, and one that need not be
      MkRowFull(<<TName("stream")>>, <<TBrk(<<"ObjA">>)>>, NoCol, Ver("1.0"),
                NotRequired, <<TBool("TRUE")>>, NoCol),
      MkRow(<<TName("stream")>>, <<TBrk(<<"ObjA">>)>>, NoCol, Ver("1.0")),
      \* a stream since 1.2 that need not be indirect
      MkRow(<<TFn("fn:SinceVersion(", <<"1.2", "stream">>)>>, <<TBrk(<<"ObjA">>)>>,
            NoCol, Ver("1.0")),
      \* Type=dictionary;stream with IndirectReference=[FALSE];[TRUE]
      MkRowFull(<<TName("dictionary"), TName("stream")>>,
                <<TBrk(<<"ObjA">>), TBrk(<<"ObjB">>)>>, NoCol, Ver("1.0"),
                NotRequired, <<TBrk(<<"FALSE">>), TBrk(<<"TRUE">>)>>, NoCol),
      \* Type=array;dictionary;stream with IndirectReference=[FALSE];[FALSE]
      MkRowFull(<<TName("array"), TName("dictionary"), TName("stream")>>,
                <<TBrk(<<"ObjA">>), TBrk(<<"ObjA">>), TBrk(<<"ObjA">>)>>, NoCol, Ver("1.0"),
                NotRequired, <<TBrk(<<"FALSE">>), TBrk(<<"FALSE">>)>>, NoCol),
      \* Type=integer with PossibleValues=[1];[2]
      MkRowFull(<<TName("integer")>>, NoCol, NoCol, Ver("1.0"),
                NotRequired, <<TBool("FALSE")>>, <<TBrk(<<"1">>), TBrk(<<"2">>)>>),
      \* Type=integer;name with PossibleValues=[1,2]
      MkRowFull(IntOrName, NoCol, NoCol, Ver("1.0"),
                NotRequired, <<TBool("FALSE")>>, <<TBrk(<<"1", "2">>)>>) }

\* The rows of a wildcard key: Required TRUE, FALSE, fn:IsRequired(K) and
\* fn:Not(K).
WildcardRows ==
    { MkRowRequired(<<TName("integer")>>, NoCol, NoCol, Ver("1.0"), <<TBool("TRUE")>>),
      MkRowRequired(<<TName("integer")>>, NoCol, NoCol, Ver("1.0"), <<TBool("FALSE")>>),
      MkRowRequired(<<TName("dictionary")>>, <<TBrk(<<"ObjA">>)>>, NoCol, Ver("1.0"),
                    <<TFn("fn:IsRequired(", <<"K">>)>>),
      MkRowRequired(<<TName("integer")>>, NoCol, NoCol, Ver("1.0"),
                    <<TFn("fn:Not(", <<"K">>)>>) }

\* The one row of a file, under its key.
ValidateEntries ==
    { [key |-> "A", row |-> r] : r \in ValidateRows }
       \cup { [key |-> "*", row |-> r] : r \in WildcardRows }

ObjectOrders ==
    { <<"FileTrailer", "ObjA">>, <<"ObjA", "FileTrailer">>,
      <<"FileTrailer", "ObjA", "ObjB">>, <<"FileTrailer", "ObjB", "ObjA">>,
      <<"ObjA", "FileTrailer", "ObjB">>, <<"ObjA", "ObjB", "FileTrailer">>,
      <<"ObjB", "FileTrailer", "ObjA">>, <<"ObjB", "ObjA", "FileTrailer">> }

\* The state of __init__ at line 848: every file ingested, nothing checked.
ValidateInit ==
    /\ \E names \in ObjectOrders :
         \E rows \in [1..Len(names) -> ValidateEntries] :
            pdfdom = [i \in 1..Len(names) |->
                        MkObj(names[i], <<rows[i].key>>, <<rows[i].row>>)]
    /\ vpc = "start"
    /\ vobj = 0
    /\ vkey = 0
    /\ findings = {}
    /\ rowsChecked = {}
    /\ orphansChecked = {}
    /\ validating = TRUE
    /\ FindIdle
    /\ WalkIdle
    /\ AstIdle
    /\ IngestIdle

ValidateNext ==
    \/ validate_pdf_dom
    \/ ValidateRow
    \/ ValidateIncoming
    \/ ValidateReturn

SpecValidate == ValidateInit /\ [][ValidateNext]_vars

(***************************************************************************)
(* The loop of __init__ over the TSV files (lines 720-857).  A file is     *)
(* [name, rows]; a row of a file is [Key, Required], the Key text and the  *)
(* tokens of the Required text; its other columns are those of an integer  *)
(* key without default value.  The whole loop, the call of the validator   *)
(* included, is inside one try whose except (line 857) logs and returns.   *)
(***************************************************************************)
\* Lines 659-672: the value of a base token replaces the token.
RECURSIVE flatten_ast(_)
flatten_ast(x) ==
    IF x.k = "list" THEN Lst([i \in 1..Len(x.l) |-> flatten_ast(x.l[i])])
    ELSE CASE TokType(x.s) \in {"REAL", "INTEGER"} -> Num(x.s)
           [] TokType(x.s) = "PDF_TRUE"             -> Bool("True")
           [] TokType(x.s) = "PDF_FALSE"            -> Bool("False")
           [] TokType(x.s) = "KEY_NAME"             -> Str(x.s)
           [] OTHER                                 -> x

\* Lines 685-698 on the tokens stk of a text: [err, val].
ParseTokens(stk, v) ==
    LET r == NestFrom(stk, 0, <<>>, <<>>, v) IN
    IF r.err # "" THEN [err |-> r.err, val |-> NoneV]
    ELSE LET a == flatten_ast(Lst(r.ast)) IN
         [err |-> "",
          val |-> IF /\ Len(stk) = 1
                     /\ TokType(stk[1]) \notin {"FUNC_NAME", "KEY_VALUE"}
                     /\ Len(a.l) > 0
                  THEN a.l[1]
                  ELSE a]

\* __strip_square_brackets on the tokens of one piece.
StripTokens(piece) ==
    IF Len(piece) >= 2 /\ piece[1] = "[" /\ piece[Len(piece)] = "]"
    THEN SubSeq(piece, 2, Len(piece) - 1)
    ELSE piece

\* Lines 759-765: the texts of the IndirectReference column handed to
\* _parse_functions, each as its tokens; with ';' every piece has lost its
\* outer brackets.
IndirectReferenceTexts(col) ==
    IF Len(col) >= 2 THEN [j \in 1..Len(col) |-> StripTokens(col[j])] ELSE col

\* The Required text (line 748) and then the IndirectReference texts, each
\* parsed: [err, val].  A piece that was "[]" is None and is not parsed.
ParsedTexts(texts, split, v) ==
    [i \in 1..Len(texts) |->
        IF split /\ i > 1 /\ texts[i] = <<>>
        THEN [err |-> "", val |-> NoneV]
        ELSE ParseTokens(texts[i], v)]

\* Lines 748-772 on the parsed texts: the first exception in the order of
\* parsing, or the row as stored.
StoredRow(r, parsed, split) ==
    LET failed == { i \in 1..Len(parsed) : parsed[i].err # "" } IN
    IF failed # {}
    THEN [err |-> parsed[CHOOSE i \in failed : \A j \in failed : i <= j].err,
          row |-> NoneV]
    ELSE [err |-> "",
          row |-> [MkRow(r.Type, [i \in 1..Len(r.Type) |-> TBrk(<<>>)], NoCol, Ver("1.0"))
                     EXCEPT !.Required = IF parsed[1].val.k = "list" THEN parsed[1].val
                                         ELSE Lst(<<parsed[1].val>>),
                            !.IndirectReference =
                                IndirectReferenceList(
                                    IF split
                                    THEN Lst([j \in 1..(Len(parsed) - 1) |-> parsed[j + 1].val])
                                    ELSE parsed[2].val,
                                    IngestType(r.Type))]]

\* Lines 732-841 for one row: the exception raised, or the row as stored.
IngestRow(r, v) ==
    IF r.Key = "" THEN [err |-> "TypeError", row |-> NoneV]
    ELSE StoredRow(r,
                   ParsedTexts(<<r.Required>> \o IndirectReferenceTexts(r.IndirectReference),
                               Len(r.IndirectReference) >= 2, v),
                   Len(r.IndirectReference) >= 2)

\* Lines 731-842 from row j on: the first exception, "" for none.
RECURSIVE IngestRowsErr(_, _, _)
IngestRowsErr(rows, j, v) ==
    IF j > Len(rows) THEN ""
    ELSE LET err == IngestRow(rows[j], v).err IN
         IF err # "" THEN err ELSE IngestRowsErr(rows, j + 1, v)

MaxFiles == 2

MaxTsvRows == 2

FileNames == <<"FileTrailer", "ObjA", "ObjB">>

ThreeTypes == <<TName("array"), TName("dictionary"), TName("stream")>>

\* The Required, Type and IndirectReference columns of a row, the first
\* and the last as the tokens of their texts (of each piece between ';').
TsvColumns ==
    { [Required |-> <<"FALSE">>, Type |-> <<TName("integer")>>,
       IndirectReference |-> << <<"FALSE">> >>],
      [Required |-> <<"fn:IsRequired(", "fn:Not(", "K", ")", ")">>,
       Type |-> <<TName("integer")>>, IndirectReference |-> << <<"FALSE">> >>],
      [Required |-> <<"fn:IsRequired(", "fn:RequiredValue(", ")", ")">>,
       Type |-> <<TName("integer")>>, IndirectReference |-> << <<"FALSE">> >>],
      \* Type=integer;name with IndirectReference=TRUE
      [Required |-> <<"FALSE">>, Type |-> <<TName("integer"), TName("name")>>,
       IndirectReference |-> << <<"TRUE">> >>],
      \* Type=integer;name with IndirectReference=[FALSE];[TRUE]
      [Required |-> <<"FALSE">>, Type |-> <<TName("integer"), TName("name")>>,
       IndirectReference |-> << <<"[", "FALSE", "]">>, <<"[", "TRUE", "]">> >>],
      \* three types with IndirectReference=fn:Not(K)
      [Required |-> <<"FALSE">>, Type |-> ThreeTypes,
       IndirectReference |-> << <<"fn:Not(", "K", ")">> >>],
      \* Type=integer;name with IndirectReference=fn:NoCycle() || fn:NoCycle()
      [Required |-> <<"FALSE">>, Type |-> <<TName("integer"), TName("name")>>,
       IndirectReference |-> << <<"fn:NoCycle(", ")", "||", "fn:NoCycle(", ")">> >>] }

TsvRow(key, c) ==
    [Key |-> key, Required |-> c.Required, Type |-> c.Type,
     IndirectReference |-> c.IndirectReference]

TsvKeys == <<"A", "B", "C">>

\* The columns that differ in Required only.
TsvRequiredColumns == { c \in TsvColumns : Len(c.Type) = 1 }

\* The rows of a file: distinct keys, any of them possibly empty; a file of
\* one row has any of the columns drawn, a longer file those that differ in
\* Required.
TsvRows ==
    UNION { { [j \in 1..n |-> TsvRow(IF e[j] THEN "" ELSE TsvKeys[j], c[j])] :
                e \in [1..n -> BOOLEAN],
                c \in [1..n -> IF n = 1 THEN TsvColumns ELSE TsvRequiredColumns] } :
            n \in 1..MaxTsvRows }

TsvDirs ==
    UNION { { [i \in 1..n |-> [name |-> FileNames[i], rows |-> rr[i]]] :
                rr \in [1..n -> TsvRows] } : n \in 1..MaxFiles }

IngestInit ==
    /\ tsvdir \in TsvDirs
    /\ validating \in BOOLEAN
    /\ fileno = 0
    /\ ipc = "run"
    /\ pdfdom = <<>>
    /\ earlier = <<>>
    /\ FindIdle
    /\ ValidateIdle
    /\ WalkIdle
    /\ AstIdle

\* One turn of the loop of line 723: the file is stored at line 842 when
\* none of its rows raised.
IngestFile ==
    /\ ipc = "run"
    /\ fileno < Len(tsvdir)
    /\ LET f   == tsvdir[fileno + 1]
           err == IngestRowsErr(f.rows, 1, validating)
       IN  IF err # ""
           THEN /\ ipc' = err
                /\ fileno' = fileno + 1
                /\ UNCHANGED pdfdom
           ELSE /\ pdfdom' = Append(pdfdom,
                                MkObj(f.name,
                                      [j \in 1..Len(f.rows) |-> f.rows[j].Key],
                                      [j \in 1..Len(f.rows) |->
                                          IngestRow(f.rows[j], validating).row]))
                /\ fileno' = fileno + 1
                /\ UNCHANGED ipc
    /\ UNCHANGED <<tsvdir, earlier, exported, validating>>
    /\ UNCHANGED fvars
    /\ UNCHANGED vvars
    /\ UNCHANGED wvars
    /\ UNCHANGED avars

\* Lines 844-856, after the last file: the validator is called when
\* validating (its run is SpecValidate), else __init__ returns.
IngestEnd ==
    /\ ipc = "run"
    /\ fileno = Len(tsvdir)
    /\ ipc' = IF validating THEN "validate" ELSE "done"
    /\ UNCHANGED <<tsvdir, fileno, pdfdom, earlier, exported, validating>>
    /\ UNCHANGED fvars
    /\ UNCHANGED vvars
    /\ UNCHANGED wvars
    /\ UNCHANGED avars

\* The Arlington objects made of one directory.
MaxObjects == 2

\* Lines 700-722: the caller makes another Arlington object of the same
\* directory, validating or not; the object starts from its own empty
\* __pdfdom (line 709).  The Dom and the flag of the object before it are
\* kept in earlier.
Arlington ==
    /\ ipc \notin {"idle", "run"}
    /\ Len(earlier) < MaxObjects - 1
    /\ earlier' = Append(earlier, [dom |-> pdfdom, validating |-> validating])
    /\ pdfdom' = <<>>
    /\ fileno' = 0
    /\ ipc' = "run"
    /\ validating' \in BOOLEAN
    /\ UNCHANGED <<tsvdir, exported>>
    /\ UNCHANGED fvars
    /\ UNCHANGED vvars
    /\ UNCHANGED wvars
    /\ UNCHANGED avars

IngestNext ==
    \/ IngestFile
    \/ IngestEnd
    \/ Arlington

SpecIngest == IngestInit /\ [][IngestNext]_vars

(***************************************************************************)
(* A run of __main__ (lines 1578-1640) once the files are ingested: the    *)
(* validator when --validate is given, then save_dom_to_json when --json   *)
(* is given, then validate_pdf_file on the documents of --pdf.             *)
(***************************************************************************)
\* Lines 138-141: json.dump calls sly_lex_Token_to_json on the tokens it
\* meets and writes the dict it returns.
RECURSIVE JsonValue(_)
JsonValue(x) ==
    CASE x.k = "list" -> Lst([i \in 1..Len(x.l) |-> JsonValue(x.l[i])])
      [] x.k = "tok"  -> [k |-> "dict", s |-> "sly.lex.Token",
                          l |-> <<Str(TokType(x.s)), Str(x.s)>>]
      [] OTHER        -> x

JsonRow(row) ==
    [Type         |-> [i \in 1..Len(row.Type) |-> JsonValue(row.Type[i])],
     Link         |-> JsonValue(row.Link),
     DefaultValue |-> JsonValue(row.DefaultValue),
     SinceVersion |-> JsonValue(row.SinceVersion),
     Required     |-> JsonValue(row.Required),
     IndirectReference |-> JsonValue(row.IndirectReference),
     PossibleValues    |-> JsonValue(row.PossibleValues)]

\* sort_keys = True: the text written does not depend on the order of the
\* objects and of their keys.
ToJson(dom) ==
    [k |-> "json", s |-> "",
     l |-> { <<dom[c[1]].name, dom[c[1]].keys[c[2]], JsonRow(dom[c[1]].rows[c[2]])>> :
               c \in Cells(dom) }]

save_dom_to_json_in_place ==
    /\ vpc \notin {"start", "rows"}
    /\ wpc = "idle"
    /\ ndocs = 0
    /\ exported = NoneV
    /\ exported' = ToJson(pdfdom)
    /\ pdfdom' = [i \in 1..Len(pdfdom) |->
                    [pdfdom[i] EXCEPT !.rows = [j \in 1..Len(@) |-> JsonRow(@[j])]]]
    /\ UNCHANGED validating
    /\ UNCHANGED fvars
    /\ UNCHANGED vvars
    /\ UNCHANGED wvars
    /\ UNCHANGED avars
    /\ UNCHANGED ivars

\* Lines 1568-1575, called at line 1610 before any document is read.
save_dom_to_json ==
    /\ vpc \notin {"start", "rows"}
    /\ wpc = "idle"
    /\ ndocs = 0
    /\ exported = NoneV
    /\ exported' = ToJson(pdfdom)
    /\ UNCHANGED <<pdfdom, validating>>
    /\ UNCHANGED fvars
    /\ UNCHANGED vvars
    /\ UNCHANGED wvars
    /\ UNCHANGED avars
    /\ UNCHANGED ivars

RunInit ==
    /\ pdfdom \in WalkSchemas
    /\ validating \in BOOLEAN
    /\ vpc = IF validating THEN "start" ELSE "idle"
    /\ vobj = 0
    /\ vkey = 0
    /\ findings = {}
    /\ rowsChecked = {}
    /\ orphansChecked = {}
    /\ doc = NoDoc
    /\ wpc = "idle"
    /\ stack = <<>>
    /\ visited = {}
    /\ out = <<>>
    /\ entered = [n \in 0..3 |-> 0]
    /\ ndocs = 0
    /\ exported = NoneV
    /\ FindIdle
    /\ AstIdle
    /\ IngestIdle

RunNext ==
    \/ validate_pdf_dom
    \/ ValidateRow
    \/ ValidateIncoming
    \/ ValidateReturn
    \/ save_dom_to_json
    \/ validate_pdf_file
    \/ ChildDictionary
    \/ ChildStream
    \/ ChildArray
    \/ ChildName
    \/ ChildUnexpected
    \/ ReturnToCaller
    \/ WalkDone

SpecRun == RunInit /\ [][RunNext]_vars

(***************************************************************************)
(* Graph notions the properties of the walk are stated with.               *)
(***************************************************************************)
\* The references of d from container to container, as (parent, child).
DocEdges(d) ==
    UNION { { <<p, d.kids[p][j].id>> : j \in { x \in 1..Len(d.kids[p]) : d.kids[p][x].id # 0 } }
            : p \in 0..3 }

Joined(R) == R \cup { <<a[1], b[2]>> : <<a, b>> \in { z \in R \X R : z[1][2] = z[2][1] } }

\* The transitive closure of a relation on the four nodes.
Closure(R) == Joined(Joined(R))

\* The positions in out of the "already visited" lines.
VisitedNotes == { i \in 1..Len(out) : out[i].d = "visited" }

\* The "already visited" lines printed for a's reference to itself.
SelfNotes(a) == { i \in VisitedNotes : out[i].parent = a /\ out[i].n = a }

\* The only cycle of d is the dictionary a, indirect, referring to itself
\* through exactly one of its keys.
SelfLoopOnly(d, a) ==
    /\ NodeKind(a) = "dict"
    /\ d.ref[a]
    /\ Cardinality({ j \in 1..Len(d.kids[a]) : d.kids[a][j].id = a }) = 1
    /\ \A n \in 0..3 : <<n, n>> \notin Closure(DocEdges(d) \ {<<a, a>>})

\* The number of places of d that refer to n, a's reference to itself apart.
RefsTo(d, a, n) ==
    Cardinality({ s \in (0..3) \X (1..3) :
                    /\ s[2] <= Len(d.kids[s[1]])
                    /\ d.kids[s[1]][s[2]].id = n
                    /\ ~(s[1] = a /\ n = a) })

NoOtherRepeat(d, a) == \A n \in Containers : d.ref[n] => RefsTo(d, a, n) <= 1

(***************************************************************************)
(* C1.  The walk started by validate_pdf_file ends on every finite         *)
(* document graph, self-referential and mutually referential ones with     *)
(* indirect nodes on their cycles included: a walk that is under way       *)
(* reaches the end of validate_pdf_file or raises, and never recurses      *)
(* without bound (the state "RecursionError").                             *)
(***************************************************************************)
WalkTerminated == wpc \in {"done", "TypeError", "IndexError", "KeyError", "SystemExit"}

C1_WalkTerminates == (wpc = "walking") ~> WalkTerminated

\* A walk that ran to its end over two nodes that refer to each other.
C1_Witness ==
    /\ wpc = "done"
    /\ \E n \in Containers : \E m \in Containers \ {n} :
          /\ <<n, m>> \in Closure(DocEdges(doc))
          /\ <<m, n>> \in Closure(DocEdges(doc))
          /\ {n, m} \subseteq visited
          /\ entered[n] = 1
          /\ entered[m] = 1

C3_Step ==
    /\ ndocs' = ndocs => visited \subseteq visited'
    /\ \A n \in Containers : doc.ref[n] => entered'[n] <= 1
    /\ \A n \in Containers :
          (doc.ref[n] /\ entered'[n] > entered[n]) => (n \notin visited /\ n \in visited')
    /\ (HasChild /\ CurChild.id # 0 /\ doc.ref[CurChild.id] /\ wpc' = "walking") =>
          IF CurChild.id \in visited
          THEN /\ Len(stack') = Len(stack)
               /\ entered' = entered
               /\ visited' = visited
               /\ Len(out') = Len(out) + 1
               /\ out'[Len(out')].d = "visited"
               /\ out'[Len(out')].n = CurChild.id
          ELSE /\ CurChild.id \in visited'
               /\ out'[Len(out')].d # "visited"
               /\ out'[Len(out')].d = "as" =>
                     /\ Len(stack') = Len(stack) + 1
                     /\ stack'[Len(stack')].node = CurChild.id
                     /\ entered'[CurChild.id] = 1

C3_CheckBeforeRecursing == [][C3_Step]_vars

\* A second reference to a visited indirect node has just been answered with
\* an "already visited" line.
C3_Witness ==
    /\ wpc = "walking"
    /\ out # <<>>
    /\ out[Len(out)].d = "visited"
    /\ out[Len(out)].n \in visited
    /\ entered[out[Len(out)].n] = 1

(***************************************************************************)
(* C4.  As claimed: the walk never ends the process and never raises.      *)
(***************************************************************************)
C4_WalkNeverAborts == wpc \notin {"TypeError", "IndexError", "KeyError", "SystemExit"}

(***************************************************************************)
(* C5.  As claimed: every line printed for a key of a dictionary or stream *)
(* walked under a schema object used the row of that exact key if the      *)
(* object has one, else the row of "*" if it has one, else no row.         *)
(***************************************************************************)
C5_ExactKeyBeforeWildcard ==
    \A i \in 1..Len(out) :
       (NodeKind(out[i].parent) \in {"dict", "stream"} /\ out[i].arl # "") =>
          LET arlobj == GetObj(pdfdom, out[i].arl) IN
          out[i].rk = IF HasKey(arlobj, out[i].key) THEN out[i].key
                      ELSE IF HasKey(arlobj, "*") THEN "*"
                      ELSE ""

(***************************************************************************)
(* C6.  As claimed: __find_pdf_type returns the index of the earliest      *)
(* alternative whose concrete type (the type itself, or the type inside a  *)
(* version wrapper) is one of the types asked for, and -1 only when no     *)
(* alternative of the list is one of them.                                 *)
(***************************************************************************)
ConcreteType(t) == IF t.k = "str" THEN t.s ELSE t.l[1].l[2].l[2].s

ExactMatches(types, typelist) ==
    { i \in 1..Len(typelist) :
        \E j \in 1..Len(types.names) : ConcreteType(typelist[i]) = types.names[j] }

EarliestExact(types, typelist) ==
    IF ExactMatches(types, typelist) = {} THEN -1
    ELSE (CHOOSE i \in ExactMatches(types, typelist) :
             \A j \in ExactMatches(types, typelist) : i <= j) - 1

C6_EarliestExactAlternative ==
    fresult.done => fresult.idx = EarliestExact(fquery, ftypelist)

(***************************************************************************)
(* Notions the properties of the static pass are stated with.              *)
(***************************************************************************)
ObjectNames(dom) == { dom[i].name : i \in 1..Len(dom) }

\* The literal targets of the Link column of a row.
LiteralTargets(row) ==
    IF row.Link.k = "none" THEN {}
    ELSE { FlattenLinks(row.Link.l)[j] : j \in 1..Len(FlattenLinks(row.Link.l)) }

\* The objects some row of object x links to.
LinkedFrom(dom, x) ==
    UNION { LiteralTargets(dom[c[1]].rows[c[2]]) : c \in { y \in Cells(dom) : dom[y[1]].name = x } }

ReachMore(dom, S) == S \cup (UNION { LinkedFrom(dom, x) : x \in S } \cap ObjectNames(dom))

\* The objects a path of Link edges from a declared root arrives at.
ReachableObjects(dom) ==
    ReachMore(dom, ReachMore(dom, ReachMore(dom,
              {"FileTrailer", "XRefStream"} \cap ObjectNames(dom))))

UnlinkedReported == { f.obj : f \in { g \in findings : g.what = "Unlinked object" } }

\* Alternative i (1-based) of the row has a Link.
LinkPresent(row, i) ==
    /\ row.Link.k = "list"
    /\ i <= Len(row.Link.l)
    /\ row.Link.l[i].k # "none"

\* The rows whose checks were begun.
RowsRun ==
    rowsChecked \cup (IF vpc \in ValidateErrors
                      THEN {<<pdfdom[vobj].name, pdfdom[vobj].keys[vkey]>>}
                      ELSE {})

AllRows == { <<pdfdom[c[1]].name, pdfdom[c[1]].keys[c[2]]>> : c \in Cells(pdfdom) }

(***************************************************************************)
(* C7.  As claimed: when the pass has ended, the objects reported as       *)
(* unlinked are exactly the objects that no path of Link edges from        *)
(* FileTrailer or XRefStream arrives at.                                   *)
(***************************************************************************)
C7_OrphansAreTheUnreachable ==
    vpc = "done" => UnlinkedReported = ObjectNames(pdfdom) \ ReachableObjects(pdfdom)

(***************************************************************************)
(* C8.  As claimed: a row whose checks ran to their end has a finding      *)
(* about the Link of alternative i whenever that Link is present although  *)
(* the type of the alternative takes no link, or absent although it takes  *)
(* one.                                                                    *)
(***************************************************************************)
C8_LinkIffTypeRequires ==
    \A c \in Cells(pdfdom) :
       LET o   == pdfdom[c[1]].name
           k   == pdfdom[c[1]].keys[c[2]]
           row == pdfdom[c[1]].rows[c[2]]
       IN  <<o, k>> \in rowsChecked =>
             \A i \in 1..Len(row.Type) :
                (LinkPresent(row, i) # (ConcreteType(row.Type[i]) \in links_required)) =>
                   \E f \in findings :
                      /\ f.obj = o
                      /\ f.key = k
                      /\ f.i = i - 1
                      /\ f.what \in {"Link is missing", "Link exists"}

(***************************************************************************)
(* C9.  As claimed: a row whose checks were begun and whose Link names an  *)
(* object that is not in the Dom has a "Bad link" finding.                 *)
(***************************************************************************)
C9_BrokenLinkReported ==
    \A c \in Cells(pdfdom) :
       LET o   == pdfdom[c[1]].name
           k   == pdfdom[c[1]].keys[c[2]]
           row == pdfdom[c[1]].rows[c[2]]
       IN  (<<o, k>> \in RowsRun /\ \E t \in LiteralTargets(row) : ~HasObj(pdfdom, t)) =>
              \E f \in findings : f.obj = o /\ f.key = k /\ f.what = "Bad link"

(***************************************************************************)
(* C10.  As claimed: the pass ends only by returning, with every row and   *)
(* every object's incoming links checked.                                  *)
(***************************************************************************)
C10_PassCompletes ==
    vpc \notin {"start", "rows"} =>
       /\ vpc = "done"
       /\ rowsChecked = AllRows
       /\ orphansChecked = ObjectNames(pdfdom)

(***************************************************************************)
(* C11.  As claimed: when the pass has ended, the rows with a "Types are   *)
(* not sorted" finding are exactly the rows whose type names, a version    *)
(* wrapper counted as the type it wraps, are not in alphabetical           *)
(* non-decreasing order.                                                   *)
(***************************************************************************)
\* The place of a type name in alphabetical order; "text", the one name
\* drawn that is no Arlington type, sorts after all eighteen.
AlphaRank(t) == IF t \in known_types THEN TypeRank(t) ELSE Len(SortedTypes) + 1

AlphaSorted(typelist) ==
    \A i \in 1..(Len(typelist) - 1) :
       AlphaRank(ConcreteType(typelist[i])) <= AlphaRank(ConcreteType(typelist[i + 1]))

SortFlagged(o, k) == Finding(o, k, "Types are not sorted", -1) \in findings

C11_UnsortedRowsFlagged ==
    vpc \notin {"start", "rows"} =>
       \A c \in Cells(pdfdom) :
          SortFlagged(pdfdom[c[1]].name, pdfdom[c[1]].keys[c[2]])
             <=> ~AlphaSorted(pdfdom[c[1]].rows[c[2]].Type)

(***************************************************************************)
(* C12.  As claimed: a row under the key '*' whose Required is TRUE, and   *)
(* whose checks ran to their end, has a finding.                           *)
(***************************************************************************)
C12_WildcardRequiredReported ==
    \A c \in Cells(pdfdom) :
       LET o   == pdfdom[c[1]].name
           k   == pdfdom[c[1]].keys[c[2]]
           row == pdfdom[c[1]].rows[c[2]]
       IN  (k = "*" /\ row.Required = Lst(<<Bool("True")>>) /\ <<o, k>> \in rowsChecked) =>
              \E f \in findings : f.obj = o /\ f.key = k

(***************************************************************************)
(* C13.  Of the checkers called while a token sequence is nested (each     *)
(* call is recorded in checks with its argument group and its answer):     *)
(* the checker of fn:BitsSet / fn:BitsClear answers True exactly when the  *)
(* group is two INTEGER leaves, each in 1..32, the first less than the     *)
(* second; the checker of fn:BitSet / fn:BitClear answers True exactly     *)
(* when the group is one INTEGER leaf in 1..32.  The tokens of             *)
(* fn:BitsSet(1,33) are nested into one call node, and when validating     *)
(* its checker answers False.                                              *)
(***************************************************************************)
IsBitLeaf(x) == x.k = "tok" /\ TokType(x.s) = "INTEGER" /\ IntValue(x.s) \in 1..32

BitsSet_1_33 == <<"fn:BitsSet(", "1", ",", "33", ")">>

C13_BitCheckers ==
    /\ \A j \in 1..Len(checks) :
          LET c == checks[j] IN
          /\ c.fn \in {"fn:BitsSet(", "fn:BitsClear("} =>
                (c.res = "True" <=>
                    /\ Len(c.args) = 2
                    /\ IsBitLeaf(c.args[1])
                    /\ IsBitLeaf(c.args[2])
                    /\ IntValue(c.args[1].s) < IntValue(c.args[2].s))
          /\ c.fn \in {"fn:BitSet(", "fn:BitClear("} =>
                (c.res = "True" <=> (Len(c.args) = 1 /\ IsBitLeaf(c.args[1])))
    /\ (toks = BitsSet_1_33 /\ apc # "start") =>
          /\ apc = "done"
          /\ nexti = Len(toks)
          /\ ast = <<Lst(<<Tok("fn:BitsSet("), Lst(<<Tok("1"), Tok("33")>>)>>)>>
          /\ validating => (Len(checks) = 1 /\ checks[1].res = "False")

C13_Witness ==
    /\ toks = BitsSet_1_33
    /\ validating
    /\ apc = "done"
    /\ checks = <<[fn |-> "fn:BitsSet(", args |-> <<Tok("1"), Tok("33")>>, res |-> "False"]>>

(***************************************************************************)
(* C14.  A token sequence whose nesting is malformed (a closing token      *)
(* with no group open, or the end of the tokens with a group open) makes   *)
(* to_nested_AST raise instead of returning a list, and a call that        *)
(* returns has read every token.  Violated: to_nested_AST has no raise;    *)
(* a closing token at the top level returns the list built so far and      *)
(* leaves the tokens after it unread, the end of the tokens closes every   *)
(* open group.                                                             *)
(***************************************************************************)
\* Open groups after the first n tokens, -1 once a group was closed that was
\* not open.
RECURSIVE DepthAfter(_, _)
DepthAfter(s, n) ==
    IF n = 0 THEN 0
    ELSE LET d  == DepthAfter(s, n - 1)
             ty == TokType(s[n])
         IN  IF d < 0 THEN -1
             ELSE IF ty \in {"FUNC_NAME", "LPAREN", "ARRAY_START"} THEN d + 1
             ELSE IF ty \in {"RPAREN", "ARRAY_END"} THEN d - 1
             ELSE d

WellNested(s) == DepthAfter(s, Len(s)) = 0

C14_MalformedNestingRaises ==
    apc = "done" => (WellNested(toks) /\ nexti = Len(toks))

(***************************************************************************)
(* C15.  For a well-nested token sequence the list to_nested_AST returns   *)
(* is the tokens with their nesting made explicit: written back as tokens  *)
(* (a two-element list of a FUNC_NAME token and a list as the function     *)
(* name, its arguments and a closing parenthesis; any other list as an     *)
(* opening token, its elements and a closing token) it is the input        *)
(* without its commas; no FUNC_NAME token stands anywhere but first in     *)
(* such a pair, no comma, parenthesis or bracket is a leaf, and every      *)
(* token was read.                                                         *)
(***************************************************************************)
RECURSIVE Unparse(_)
Unparse(l) ==
    IF l = <<>> THEN <<>>
    ELSE LET x == Head(l) IN
         (IF x.k = "list"
          THEN IF /\ Len(x.l) = 2
                  /\ x.l[1].k = "tok"
                  /\ TokType(x.l[1].s) = "FUNC_NAME"
                  /\ x.l[2].k = "list"
               THEN <<x.l[1].s>> \o Unparse(x.l[2].l) \o <<")">>
               ELSE <<"(">> \o Unparse(x.l) \o <<")">>
          ELSE IF TokType(x.s) \in {"FUNC_NAME", "LPAREN", "RPAREN", "ARRAY_START",
                                     "ARRAY_END", "COMMA"}
               THEN <<"?">>
               ELSE <<x.s>>)
         \o Unparse(Tail(l))

\* The tokens without commas, "[" and "]" written as parentheses.
RECURSIVE Canon(_)
Canon(s) ==
    IF s = <<>> THEN <<>>
    ELSE LET ty == TokType(Head(s)) IN
         (CASE ty = "COMMA" -> <<>>
            [] ty \in {"LPAREN", "ARRAY_START"} -> <<"(">>
            [] ty \in {"RPAREN", "ARRAY_END"} -> <<")">>
            [] OTHER -> <<Head(s)>>)
         \o Canon(Tail(s))

C15_NestedGroups ==
    (apc = "done" /\ WellNested(toks)) =>
       /\ nexti = Len(toks)
       /\ Unparse(ast) = Canon(toks)

C15_Witness ==
    /\ apc = "done"
    /\ toks = <<"fn:BitsSet(", "(", "1", ")", ",", "K", ")">>
    /\ ast = <<Lst(<<Tok("fn:BitsSet("), Lst(<<Lst(<<Tok("1")>>), Tok("K")>>)>>)>>

(***************************************************************************)
(* C16.  When validating, no call of a checker ends to_nested_AST: an      *)
(* unknown function and a checker's False are logged and the list is       *)
(* returned.  Violated: validate_fn_required_value reads ast[0] of an      *)
(* empty argument group (IndexError), and validate_fn_bit,                 *)
(* validate_fn_bits, validate_fn_array_sort_ascending and                  *)
(* validate_fn_version read .type of an argument that is a list            *)
(* (AttributeError).                                                       *)
(***************************************************************************)
C16_CheckersNeverRaise ==
    (validating /\ apc # "start") =>
       /\ apc = "done"
       /\ \A j \in 1..Len(checks) : checks[j].res \in {"True", "False", "Unknown"}

(***************************************************************************)
(* C17.  When __init__ is over, every file of the directory none of whose  *)
(* rows raises is in the Dom, whatever another file raised.  Violated: the *)
(* TypeError of an empty Key (line 737), like any exception of a row,      *)
(* leaves the loop over the files; the files after it are never read.      *)
(***************************************************************************)
C17_OtherFilesIngested ==
    ipc # "run" =>
       \A i \in 1..Len(tsvdir) :
          IngestRowsErr(tsvdir[i].rows, 1, validating) = "" =>
             HasObj(pdfdom, tsvdir[i].name)

(***************************************************************************)
(* C18.  Once the files are ingested no step changes the Dom: not a step   *)
(* of the validator, not save_dom_to_json, not a step of a walk over any   *)
(* document; what save_dom_to_json writes is made from the Dom as          *)
(* ingestion left it.                                                      *)
(***************************************************************************)
C18_Step ==
    /\ pdfdom' = pdfdom
    /\ exported' # exported => exported' = ToJson(pdfdom)

C18_DomNeverModified == [][C18_Step]_vars

\* The validator has run, the Dom was written out and a second document is
\* being walked.
C18_Witness ==
    /\ vpc = "done"
    /\ exported = ToJson(pdfdom)
    /\ ndocs = 2
    /\ Len(out) > 0
    /\ \E c \in Cells(pdfdom) : JsonRow(pdfdom[c[1]].rows[c[2]]) # pdfdom[c[1]].rows[c[2]]

(***************************************************************************)
(* C19.  The visited set belongs to one document: a call of                *)
(* validate_pdf_file starts from the empty set whatever the walk of the    *)
(* document before left in it, and the set only ever holds indirect        *)
(* objects of the document being walked.                                   *)
(***************************************************************************)
C19_Step ==
    /\ ndocs' # ndocs => visited' = {}
    /\ visited' \subseteq { n \in Containers : doc'.ref[n] }

C19_VisitedPerDocument == [][C19_Step]_vars

\* The walk of a second document has entered and marked an indirect object
\* and has met no visited one.
C19_Witness ==
    /\ ndocs = 2
    /\ wpc = "done"
    /\ \E n \in visited : entered[n] = 1
    /\ \A j \in 1..Len(out) : out[j].d # "visited"

(***************************************************************************)
(* C20.  Every line the walk prints for a child dictionary whose row       *)
(* matched with an alternative that is name-tree or number-tree, alone or  *)
(* inside a version wrapper, is the name/number-tree line or the already   *)
(* visited line, never the line that goes with a call of process_dict,     *)
(* whatever the kind of the parent.  Violated: is_tree compares the        *)
(* alternative itself with the two names, and an alternative such as       *)
(* fn:SinceVersion(1.2,name-tree) is a list.                               *)
(***************************************************************************)
TreeTypes == {"name-tree", "number-tree"}

MatchedAsTree(ln) ==
    /\ ln.n # 0
    /\ NodeKind(ln.n) = "dict"
    /\ ln.arl # ""
    /\ HasObj(pdfdom, ln.arl)
    /\ HasKey(GetObj(pdfdom, ln.arl), ln.rk)
    /\ LET row == GetRow(GetObj(pdfdom, ln.arl), ln.rk)
           idx == find_pdf_type([islist |-> TRUE,
                                 names |-> <<"dictionary", "name-tree", "number-tree">>],
                                row.Type)
       IN  idx # -1 /\ ConcreteType(row.Type[idx + 1]) \in TreeTypes

C20_TreesNeverRecursed ==
    \A j \in 1..Len(out) :
       MatchedAsTree(out[j]) => out[j].d \in {"tree", "visited"}

(***************************************************************************)
(* C21.  Every line the walk prints for a child array whose row matched    *)
(* with an alternative that is matrix or rectangle, alone or inside a      *)
(* version wrapper, is the matrix line, the rectangle line or the already  *)
(* visited line, never the line that goes with a call of process_array.    *)
(* Violated: lines 1174-1179 compare the alternative itself with 'array',  *)
(* 'matrix' and 'rectangle'; an alternative such as                        *)
(* fn:SinceVersion(1.2,matrix) is a list, so the array is walked element   *)
(* by element with no schema object.                                       *)
(***************************************************************************)
MatchedAsTuple(ln) ==
    /\ ln.n # 0
    /\ NodeKind(ln.n) = "array"
    /\ ln.arl # ""
    /\ HasObj(pdfdom, ln.arl)
    /\ HasKey(GetObj(pdfdom, ln.arl), ln.rk)
    /\ LET row == GetRow(GetObj(pdfdom, ln.arl), ln.rk)
           idx == find_pdf_type([islist |-> TRUE,
                                 names |-> <<"array", "matrix", "rectangle">>],
                                row.Type)
       IN  idx # -1 /\ ConcreteType(row.Type[idx + 1]) \in {"matrix", "rectangle"}

C21_TuplesNeverRecursed ==
    \A j \in 1..Len(out) :
       MatchedAsTuple(out[j]) => out[j].d \in {"matrix", "rect", "visited"}
(***************************************************************************)
(* C24.  As claimed: when the pass has ended, every row it ran on that has *)
(* a stream among its type alternatives, bare or inside a version wrapper, *)
(* at index i has the "stream requires IndirectReference" finding unless   *)
(* its IndirectReference has the value True at index i, and no such row    *)
(* without a stream alternative has that finding.                          *)
(***************************************************************************)
\* The 0-based index of the first alternative that is a stream, -1 if none.
StreamIndex(row) ==
    IF \E i \in 1..Len(row.Type) : ConcreteType(row.Type[i]) = "stream"
    THEN (CHOOSE i \in 1..Len(row.Type) :
             /\ ConcreteType(row.Type[i]) = "stream"
             /\ \A j \in 1..(i - 1) : ConcreteType(row.Type[j]) # "stream") - 1
    ELSE -1

LiterallyTrue(row, i) ==
    i < Len(row.IndirectReference.l) /\ row.IndirectReference.l[i + 1] = Bool("True")

StreamFlagged(o, k) ==
    \E f \in findings :
       f.obj = o /\ f.key = k /\ f.what = "stream requires IndirectReference"

C24_StreamRowsFlagged ==
    vpc \notin {"start", "rows"} =>
       \A c \in Cells(pdfdom) :
          LET o   == pdfdom[c[1]].name
              k   == pdfdom[c[1]].keys[c[2]]
              row == pdfdom[c[1]].rows[c[2]]
              i   == StreamIndex(row)
          IN  <<o, k>> \in RowsRun =>
                 (StreamFlagged(o, k) <=> (i # -1 /\ ~LiterallyTrue(row, i)))

(***************************************************************************)
(* C25.  As claimed: a row whose checks ran to their end and whose         *)
(* Required holds a predicate that is no call of fn:IsRequired has the     *)
(* "Required does not start with fn:IsRequired" finding.                   *)
(***************************************************************************)
CallsIsRequired(v) ==
    v.l # <<>> /\ v.l[1] = Tok("fn:IsRequired(")

C25_OtherRequiredPredicatesReported ==
    \A c \in Cells(pdfdom) :
       LET o   == pdfdom[c[1]].name
           k   == pdfdom[c[1]].keys[c[2]]
           row == pdfdom[c[1]].rows[c[2]]
       IN  (/\ <<o, k>> \in rowsChecked
            /\ \E j \in 1..Len(row.Required.l) :
                  row.Required.l[j].k = "list" /\ ~CallsIsRequired(row.Required.l[j]))
              => Finding(o, k, "Required does not start with fn:IsRequired", -1) \in findings

(***************************************************************************)
(* C26.  As claimed: a row whose checks ran to their end and whose         *)
(* DefaultValue, or whose PossibleValues, is present with a number of      *)
(* entries other than the number of type alternatives has a finding about  *)
(* the number of entries of that column.                                   *)
(***************************************************************************)
CountFlagged(o, k, column) ==
    \E f \in findings :
       /\ f.obj = o
       /\ f.key = k
       /\ f.what \in {"Incorrect number of elements in " \o column}

Miscounted(row, value) ==
    value.k # "none" /\ Len(value.l) # Len(row.Type)

C26_ColumnCountsFlagged ==
    \A c \in Cells(pdfdom) :
       LET o   == pdfdom[c[1]].name
           k   == pdfdom[c[1]].keys[c[2]]
           row == pdfdom[c[1]].rows[c[2]]
       IN  <<o, k>> \in rowsChecked =>
              /\ Miscounted(row, row.DefaultValue) => CountFlagged(o, k, "DefaultValue")
              /\ Miscounted(row, row.PossibleValues) => CountFlagged(o, k, "PossibleValues")
(***************************************************************************)
(* C23.  Of every row ingestion stored, compared with the TSV row it was   *)
(* read from.  If the IndirectReference column is one piece that parses to *)
(* a single value (TRUE, FALSE or one call) and Type has N >= 2            *)
(* alternatives, the stored IndirectReference has N entries, each that     *)
(* value.  If the column has one piece per alternative, the stored         *)
(* IndirectReference is the list of the parsed pieces.  A piece that       *)
(* parses to several values (calls joined by an operator) is no single     *)
(* value: it is stored with one entry per value.                           *)
(***************************************************************************)
\* The TSV row behind row j of object x of the Dom.
SourceRow(x, j) ==
    LET i == CHOOSE i \in 1..Len(tsvdir) : tsvdir[i].name = pdfdom[x].name
    IN  tsvdir[i].rows[j]

\* The parsed text of one piece, brackets and all, when validation is off.
ParsedPiece(piece) == ParseTokens(StripTokens(piece), FALSE).val

IsSingleValue(p) == p.k # "list" \/ Len(p.l) = 1

TheSingleValue(p) == IF p.k = "list" THEN p.l[1] ELSE p

C22_ReingestionEqual ==
    (ipc \notin {"idle", "run"} /\ Len(earlier) >= 1) => pdfdom = earlier[1].dom
(***************************************************************************)
(* C27.  As claimed: when both builders have run on the same tokens, the   *)
(* one of arlington.py with validation off, the list ToNestedAST returned  *)
(* is the list to_nested_AST returned, and so is the index.                *)
(***************************************************************************)
C27_BuildersAgree ==
    (apc = "done" /\ ~validating /\ lexed.done) =>
       (lexed.ast = ast /\ lexed.i = nexti)
(***************************************************************************)
(* C28.  As claimed: when a walk has returned, every node recorded in      *)
(* visited has had a process_* call made on it in that walk.               *)
(***************************************************************************)
C28_VisitedWereWalked ==
    wpc = "done" => \A n \in visited : entered[n] >= 1

(***************************************************************************)
(* C29.  As claimed: once validate_pdf_file has been called on a document, *)
(* process_dict has been called on its trailer, and every line printed for *)
(* a child of the trailer was printed under XRefStream when the trailer's  *)
(* Type is XRef and under FileTrailer otherwise.                           *)
(***************************************************************************)
TrailerRoot == IF doc.ttype = "XRef" THEN "XRefStream" ELSE "FileTrailer"

C29_TrailerWalkedUnderOneRoot ==
    ndocs >= 1 =>
       /\ entered[0] = 1
       /\ \A j \in 1..Len(out) : out[j].parent = 0 => out[j].arl = TrailerRoot

(***************************************************************************)
(* C30.  As claimed, of every line printed for a child: it starts with '=' *)
(* only if a row was selected and the matcher found the child's kind among *)
(* the row's type alternatives; with '?' if a row was selected, by key or  *)
(* by wildcard, and the matcher found no alternative; with '+' if no row   *)
(* was selected.  "Found" is what __find_pdf_type answers for the query    *)
(* the branch of the child's kind makes.                                   *)
(***************************************************************************)
\* The kind of the child a line was printed for; the scalars drawn are names.
LineKind(ln) == IF ln.d = "value" THEN "name" ELSE NodeKind(ln.n)

KindQuery(kind) ==
    CASE kind = "dict"   -> [islist |-> TRUE,
                             names |-> <<"dictionary", "name-tree", "number-tree">>]
      [] kind = "stream" -> [islist |-> FALSE, names |-> <<"stream">>]
      [] kind = "array"  -> [islist |-> TRUE, names |-> <<"array", "matrix", "rectangle">>]
      [] OTHER           -> [islist |-> FALSE, names |-> <<"name">>]

KindFound(ln) ==
    /\ ln.rk # ""
    /\ find_pdf_type(KindQuery(LineKind(ln)), GetRow(GetObj(pdfdom, ln.arl), ln.rk).Type) # -1

C30_StatusOfChild ==
    \A j \in 1..Len(out) :
       LET ln == out[j] IN
       /\ ln.st = "=" => KindFound(ln)
       /\ (ln.rk # "" /\ ~KindFound(ln)) => ln.st = "?"
       /\ ln.rk = "" => ln.st = "+"

====
